---- MODULE Spec2Model ----
(***************************************************************************)
(* A model of the sunalyse solar-globe client: the scalar-field            *)
(* normalizer (createDataTexture / createImageDataFromFits), the colour    *)
(* ramp (getColorForValue), the 3-D crossfade of useThreeScene and the     *)
(* 2-D crossfade of use2DRenderer.                                         *)
(*                                                                         *)
(* JavaScript numbers are modelled as exact rationals plus NaN and the two *)
(* infinities; IEEE rounding is not modelled.                              *)
(***************************************************************************)
EXTENDS Integers, Sequences, FiniteSets, TLC

VARIABLES
    \* ---- pure-function harness (SpecNorm) ----
    nFits,          \* the FITSData handed to the normalizer
    nUseFixed,      \* useFixedScale
    nMin, nMax,     \* fixedMin / fixedMax, the strings of the number inputs
    nTexture,       \* result of createDataTexture (<<>> before the call)
    nImage,         \* result of createImageDataFromFits (<<>> before the call)
    nPhase,         \* "input" | "texture" | "image" | "off"
    \* ---- colour-ramp harness (SpecColor) ----
    cIn,            \* the normalized value handed to getColorForValue
    cOut,           \* its result [r, g, b] (<<>> before the call)
    cPhase,         \* "input" | "done" | "off"
    \* ---- parseFITS harness (SpecFits) ----
    fGen,           \* how the file was written: cards, BITPIX layout, samples
    fFile,          \* the file: [blocks, payload]
    fResult,        \* what parseFITS resolved to (<<>> before the call)
    fPhase,         \* "input" | "done" | "off"
    \* ---- coronal field lines (SpecCoronal) ----
    lFetches,       \* calls of fetchCoronalData so far
    lScene,         \* sceneRef.current exists (the 3-D globe is shown)
    coronalData,    \* state of useCoronalFieldLines: [id, fieldLines], id 0: null
    coronalError,
    fieldLineGroup, \* the THREE.Line objects of sceneRef.current.fieldLineGroup
    oldFieldLineGroup,
    currentCoronalDataRef, \* id of currentCoronalDataRef.current, 0 when null
    fieldLineTransitionRef, \* [set, isTransitioning, startTime, duration]
    \* ---- the viewer component: props and state handed to the hooks ----
    mounted,        \* the viewer is mounted
    crashed,        \* an effect threw: React has torn the tree down
    fitsData,       \* [id, fits]: the FITSData object (id is its identity)
    show2DMap,
    useFixedScale,
    fixedMin, fixedMax,
    \* ---- useThreeScene ----
    sceneRef,       \* index into scenes of sceneRef.current, 0 when null
    scenes,         \* every scene initThreeJS has built, with its render loop
    currentFitsDataRef, \* id of currentFitsDataRef.current, 0 when null
    transitionRef,  \* [set, isTransitioning, startTime, duration]
    textures,       \* every THREE.DataTexture created: [data, disposed]
    materials,      \* every THREE.ShaderMaterial created
    \* ---- use2DRenderer ----
    canvas,         \* pixels of the 2-D canvas (<<>>: a fresh, blank canvas)
    transition2DRef, \* [set, isTransitioning, startTime, duration, old, new]
    raf2D,          \* a frame of animate2DTransition is scheduled
    \* ---- the clock and the event count ----
    now,            \* Date.now(), in ms since the model started
    events,         \* user events so far
    \* ---- the globe with its field lines across scenes (SpecGlobe) ----
    lMoved,         \* lines moved into oldFieldLineGroup so far
    lDisposed,      \* lines of oldFieldLineGroup disposed so far
    \* ---- GET /api/fits/carrington/:rotationNumber (SpecServer) ----
    sReq,           \* [route, rotationNumber]: which handler, and req.params
    sUpstream,      \* what the upstream host does: [head, get, stream]
    sRes,           \* the response object: [sent, status, type, body, ended]
    sPhase,         \* "request" | "piping" | "done" | "off"
    \* ---- SolarMagneticFieldGlobe: fetching and navigation (SpecNav) ----
    currentCRNumber, \* 0 when undefined
    fetchError,
    isNavigating,
    isFetching,
    isProcessing,
    dataSource,
    isLoadingCoronal,
    requests,       \* the calls of fetchCarringtonData / fetchCoronalData in flight
    issued,         \* requests issued so far
    afterReset      \* handleReset ran and no fetch was started since

nvars == <<nFits, nUseFixed, nMin, nMax, nTexture, nImage, nPhase>>

cvars == <<cIn, cOut, cPhase>>

fvars == <<fGen, fFile, fResult, fPhase>>

lvars == <<lFetches, lScene, coronalData, coronalError, fieldLineGroup,
           oldFieldLineGroup, currentCoronalDataRef, fieldLineTransitionRef>>

pvars == <<mounted, crashed, fitsData, show2DMap, useFixedScale, fixedMin, fixedMax>>

svars == <<sceneRef, scenes, currentFitsDataRef, transitionRef, textures, materials>>

dvars == <<canvas, transition2DRef, raf2D>>

gvars == <<lMoved, lDisposed>>

hvars == <<sReq, sUpstream, sRes, sPhase>>

kvars == <<currentCRNumber, fetchError, isNavigating, isFetching, isProcessing,
           dataSource, isLoadingCoronal, requests, issued, afterReset>>

xvars == <<gvars, hvars, kvars>>

vars == <<nvars, cvars, fvars, lvars, xvars, pvars, svars, dvars, now, events>>

-----------------------------------------------------------------------------
(* Bounds of the model *)

\* width and height of the grids fed to the normalizer harness
GridW == 2
GridH == 1

\* sample values of the grids
Values == {-1000, 0, 1000}

\* the strings the two number inputs can hold ("" is an emptied input)
NumberInputs == {"", "-500", "0", "500"}

\* the colour ramp is sampled at i / ColorRes, i = 0 .. ColorRes
ColorRes == 10000

\* the grids the viewer is given
SceneRows == {<<<<-1000, 1000>>>>, <<<<0, 1000>>>>}

\* the strings typed into the number inputs of the viewer
SceneInputs == {"-500", "500"}

\* the user events (new data, scale change, 2-D/3-D toggle) after mounting
MaxEvents == 3

\* the clock runs to MaxTime ms, and a frame comes 0, 400 or 800 ms after
\* the previous event
MaxTime == 1600
TickSteps == {0, 400, 800}

-----------------------------------------------------------------------------
(* JavaScript numbers: k = "num" (the rational n/d, d > 0, reduced),       *)
(* "nan", or "inf" (n = 1 for +Infinity, -1 for -Infinity).                *)

Abs(x) == IF x < 0 THEN -x ELSE x

RECURSIVE GCD(_, _)
GCD(a, b) == IF b = 0 THEN a ELSE GCD(b, a % b)

NaN == [k |-> "nan", n |-> 0, d |-> 1]

Inf(s) == [k |-> "inf", n |-> s, d |-> 1]

Rat(n, d) ==
    LET g == GCD(Abs(n), Abs(d))
        s == IF d < 0 THEN -1 ELSE 1
    IN  [k |-> "num", n |-> (s * n) \div g, d |-> (s * d) \div g]

Num(i) == [k |-> "num", n |-> i, d |-> 1]

IsNaN(a) == a.k = "nan"

IsNum(a) == a.k = "num"

Sign(a) == IF a.n < 0 THEN -1 ELSE IF a.n > 0 THEN 1 ELSE 0

\* a < b on JavaScript numbers: false when either is NaN
JsLt(a, b) ==
    IF IsNaN(a) \/ IsNaN(b) THEN FALSE
    ELSE IF a.k = "inf" THEN a.n < 0 /\ ~(b.k = "inf" /\ b.n < 0)
    ELSE IF b.k = "inf" THEN b.n > 0
    ELSE a.n * b.d < b.n * a.d

JsEq(a, b) ==
    IF IsNaN(a) \/ IsNaN(b) THEN FALSE
    ELSE a.k = b.k /\ a.n * b.d = b.n * a.d

JsLe(a, b) == JsLt(a, b) \/ JsEq(a, b)

JsNeg(a) ==
    IF IsNaN(a) THEN NaN
    ELSE IF a.k = "inf" THEN Inf(-a.n)
    ELSE Rat(-a.n, a.d)

JsAdd(a, b) ==
    IF IsNaN(a) \/ IsNaN(b) THEN NaN
    ELSE IF a.k = "inf" /\ b.k = "inf" THEN (IF a.n = b.n THEN a ELSE NaN)
    ELSE IF a.k = "inf" THEN a
    ELSE IF b.k = "inf" THEN b
    ELSE Rat(a.n * b.d + b.n * a.d, a.d * b.d)

JsSub(a, b) == JsAdd(a, JsNeg(b))

JsMul(a, b) ==
    IF IsNaN(a) \/ IsNaN(b) THEN NaN
    ELSE IF a.k = "inf" \/ b.k = "inf"
         THEN (IF Sign(a) * Sign(b) = 0 THEN NaN ELSE Inf(Sign(a) * Sign(b)))
    ELSE Rat(a.n * b.n, a.d * b.d)

\* a / b: 0/0 is NaN, x/0 is an infinity
JsDiv(a, b) ==
    IF IsNaN(a) \/ IsNaN(b) THEN NaN
    ELSE IF a.k = "inf" /\ b.k = "inf" THEN NaN
    ELSE IF a.k = "inf" THEN Inf(IF Sign(b) < 0 THEN -a.n ELSE a.n)
    ELSE IF b.k = "inf" THEN Num(0)
    ELSE IF b.n = 0 THEN (IF a.n = 0 THEN NaN ELSE Inf(Sign(a)))
    ELSE Rat(a.n * b.d, a.d * b.n)

\* Math.min / Math.max: NaN when either argument is NaN
MathMin(a, b) ==
    IF IsNaN(a) \/ IsNaN(b) THEN NaN ELSE IF JsLt(b, a) THEN b ELSE a

MathMax(a, b) ==
    IF IsNaN(a) \/ IsNaN(b) THEN NaN ELSE IF JsLt(a, b) THEN b ELSE a

\* Math.floor
MathFloor(a) == IF IsNum(a) THEN Num(a.n \div a.d) ELSE a

\* parseFloat on the strings a number input can hold
ParseFloat(s) ==
    CASE s = "-500" -> Num(-500)
      [] s = "0"    -> Num(0)
      [] s = "500"  -> Num(500)
      [] OTHER      -> NaN

-----------------------------------------------------------------------------
(* FITSData: the grid parseFITS returns, with its running min and max.     *)

Rows(w, h) == [1..h -> [1..w -> Values]]

RECURSIVE SeqMin(_, _)
SeqMin(s, m) ==
    IF s = <<>> THEN m
    ELSE SeqMin(Tail(s), IF JsLt(Num(Head(s)), m) THEN Num(Head(s)) ELSE m)

RECURSIVE SeqMax(_, _)
SeqMax(s, m) ==
    IF s = <<>> THEN m
    ELSE SeqMax(Tail(s), IF JsLt(m, Num(Head(s))) THEN Num(Head(s)) ELSE m)

\* the samples in row-major order
RECURSIVE Flatten(_)
Flatten(rows) == IF rows = <<>> THEN <<>> ELSE Head(rows) \o Flatten(Tail(rows))

\* min starts at Infinity, max at -Infinity; one pass over the samples
FitsOf(rows) ==
    [data   |-> rows,
     width  |-> Len(rows[1]),
     height |-> Len(rows),
     min    |-> SeqMin(Flatten(rows), Inf(1)),
     max    |-> SeqMax(Flatten(rows), Inf(-1))]

-----------------------------------------------------------------------------
(* FieldNormalizer: the per-sample arithmetic shared by createDataTexture  *)
(* and createImageDataFromFits.                                            *)

ScaleMin(fits, useFixed, minVal, maxVal) == IF useFixed THEN minVal ELSE fits.min

ScaleMax(fits, useFixed, minVal, maxVal) == IF useFixed THEN maxVal ELSE fits.max

\* Normalized without the subtraction of min
NormalizedNoOffset(value, min, max) ==
    JsDiv(MathMax(min, MathMin(max, Num(value))), JsSub(max, min))

\* Normalized without the clamp to [min, max]
NormalizedNoClamp(value, min, max) ==
    JsDiv(JsSub(Num(value), min), JsSub(max, min))

\* clampedValue = Math.max(min, Math.min(max, value));
\* normalized   = (clampedValue - min) / (max - min)
Normalized(value, min, max) ==
    LET range        == JsSub(max, min)
        clampedValue == MathMax(min, MathMin(max, Num(value)))
    IN  JsDiv(JsSub(clampedValue, min), range)

\* the Float32Array of the texture: index y * width + x, here 1-based
CreateDataTexture(fits, useFixed, minVal, maxVal) ==
    LET min == ScaleMin(fits, useFixed, minVal, maxVal)
        max == ScaleMax(fits, useFixed, minVal, maxVal)
    IN  [i \in 1..(fits.width * fits.height) |->
            Normalized(fits.data[((i - 1) \div fits.width) + 1][((i - 1) % fits.width) + 1],
                       min, max)]

-----------------------------------------------------------------------------
(* ColorRamp: getColorForValue, the five-band ramp of the 2-D map path.    *)

\* the GLSL function of getColorShaderCode: the same five bands, every
\* channel left as it is computed and divided by 255
ShaderGetColorForValue(normalized) ==
    IF JsLt(normalized, Rat(2, 5)) THEN
        LET t == JsDiv(normalized, Rat(2, 5))
        IN  <<JsDiv(JsAdd(Num(100), JsMul(t, Num(155))), Num(255)),
              JsDiv(JsMul(t, Num(200)), Num(255)),
              Num(0)>>
    ELSE IF JsLt(normalized, Rat(12, 25)) THEN
        LET t == JsDiv(JsSub(normalized, Rat(2, 5)), Rat(2, 25))
        IN  <<JsDiv(JsSub(Num(255), JsMul(t, Num(55))), Num(255)),
              JsDiv(JsSub(Num(200), JsMul(t, Num(50))), Num(255)),
              JsDiv(JsMul(t, Num(150)), Num(255))>>
    ELSE IF JsLt(normalized, Rat(13, 25)) THEN
        <<JsDiv(Num(150), Num(255)), JsDiv(Num(150), Num(255)), JsDiv(Num(150), Num(255))>>
    ELSE IF JsLt(normalized, Rat(3, 5)) THEN
        LET t == JsDiv(JsSub(normalized, Rat(13, 25)), Rat(2, 25))
        IN  <<JsDiv(JsSub(Num(150), JsMul(t, Num(150))), Num(255)),
              JsDiv(JsAdd(Num(150), JsMul(t, Num(105))), Num(255)),
              JsDiv(JsSub(Num(150), JsMul(t, Num(50))), Num(255))>>
    ELSE
        LET t == JsDiv(JsSub(normalized, Rat(3, 5)), Rat(2, 5))
        IN  <<Num(0),
              JsDiv(JsSub(Num(255), JsMul(t, Num(255))), Num(255)),
              JsDiv(JsAdd(Num(100), JsMul(t, Num(155))), Num(255))>>

\* a ramp whose channels are not floored
GetColorForValueNoFloor(normalized) ==
    [ch \in 1..3 |-> JsMul(Num(255), ShaderGetColorForValue(normalized)[ch])]

\* a comparison with NaN is false, so NaN falls through to the last band
GetColorForValue(normalized) ==
    IF JsLt(normalized, Rat(2, 5)) THEN
        LET t == JsDiv(normalized, Rat(2, 5))
        IN  <<MathFloor(JsAdd(Num(100), JsMul(t, Num(155)))),
              MathFloor(JsMul(t, Num(200))),
              Num(0)>>
    ELSE IF JsLt(normalized, Rat(12, 25)) THEN
        LET t == JsDiv(JsSub(normalized, Rat(2, 5)), Rat(2, 25))
        IN  <<MathFloor(JsSub(Num(255), JsMul(t, Num(55)))),
              MathFloor(JsSub(Num(200), JsMul(t, Num(50)))),
              MathFloor(JsMul(t, Num(150)))>>
    ELSE IF JsLt(normalized, Rat(13, 25)) THEN
        <<Num(150), Num(150), Num(150)>>
    ELSE IF JsLt(normalized, Rat(3, 5)) THEN
        LET t == JsDiv(JsSub(normalized, Rat(13, 25)), Rat(2, 25))
        IN  <<MathFloor(JsSub(Num(150), JsMul(t, Num(150)))),
              MathFloor(JsAdd(Num(150), JsMul(t, Num(105)))),
              MathFloor(JsSub(Num(150), JsMul(t, Num(50))))>>
    ELSE
        LET t == JsDiv(JsSub(normalized, Rat(3, 5)), Rat(2, 5))
        IN  <<Num(0),
              MathFloor(JsSub(Num(255), JsMul(t, Num(255)))),
              MathFloor(JsAdd(Num(100), JsMul(t, Num(155))))>>

\* a store into ImageData.data (a Uint8ClampedArray): NaN becomes 0, the
\* value is rounded to the nearest integer, ties to even, and clamped
ToUint8Clamped(a) ==
    IF IsNaN(a) THEN 0
    ELSE IF a.k = "inf" THEN (IF a.n > 0 THEN 255 ELSE 0)
    ELSE LET f == a.n \div a.d
             r == 2 * (a.n - f * a.d)
             q == IF r < a.d THEN f
                  ELSE IF r > a.d THEN f + 1
                  ELSE IF f % 2 = 0 THEN f ELSE f + 1
         IN  IF q < 0 THEN 0 ELSE IF q > 255 THEN 255 ELSE q

\* one pixel of an ImageData: <<r, g, b, a>>
Pixel(rgb) ==
    <<ToUint8Clamped(rgb[1]), ToUint8Clamped(rgb[2]), ToUint8Clamped(rgb[3]), 255>>

\* normalizes and colours every sample; pixel (y * width + x) * 4
CreateImageDataFromFits(fits, useFixed, minVal, maxVal) ==
    LET min == ScaleMin(fits, useFixed, minVal, maxVal)
        max == ScaleMax(fits, useFixed, minVal, maxVal)
    IN  [i \in 1..(fits.width * fits.height) |->
            Pixel(GetColorForValue(
                Normalized(fits.data[((i - 1) \div fits.width) + 1][((i - 1) % fits.width) + 1],
                           min, max)))]

-----------------------------------------------------------------------------------------------------------------------------------------------------
(* The crossfade of the 3-D path: useThreeScene.                           *)
(*                                                                         *)
(* The refs and the objects they point to are gathered in one record w     *)
(* ("world") so that the effects of one commit can be applied in order.    *)

Duration3D == 800

\* an easing that keeps 4t^3 over the whole range
EaseInCubic(t) == JsMul(Num(4), JsMul(t, JsMul(t, t)))

EaseInOutCubic(t) ==
    IF JsLt(t, Rat(1, 2)) THEN JsMul(Num(4), JsMul(t, JsMul(t, t)))
    ELSE LET u == JsAdd(JsMul(Num(-2), t), Num(2))
         IN  JsSub(Num(1), JsDiv(JsMul(u, JsMul(u, u)), Num(2)))

\* GLSL mix(x, y, a) = x * (1 - a) + y * a
Mix(x, y, a) == JsAdd(JsMul(x, JsSub(Num(1), a)), JsMul(y, a))

\* the element of a one-element set: Only({F(x) : x \in {v}}) is F applied
\* to the value of v, which is computed once
Only(S) == CHOOSE r \in S : TRUE

World ==
    [sceneRef |-> sceneRef, scenes |-> scenes,
     currentFitsDataRef |-> currentFitsDataRef, transitionRef |-> transitionRef,
     textures |-> textures, materials |-> materials,
     canvas |-> canvas, transition2DRef |-> transition2DRef, raf2D |-> raf2D,
     crashed |-> crashed]

Props(fd, s2d, ufs, fmin, fmax) ==
    [fitsData |-> fd, show2DMap |-> s2d, useFixedScale |-> ufs,
     fixedMin |-> fmin, fixedMax |-> fmax]

\* uniforms: { dataMap }
CreateShaderMaterial(dataTexture) ==
    [kind |-> "plain", dataMap |-> dataTexture, oldDataMap |-> 0, newDataMap |-> 0,
     mixFactor |-> Num(0), disposed |-> 0]

\* uniforms: { oldDataMap, newDataMap, mixFactor: 0.0 }
CreateTransitionShaderMaterial(oldDataTexture, newDataTexture) ==
    [kind |-> "transition", dataMap |-> 0, oldDataMap |-> oldDataTexture,
     newDataMap |-> newDataTexture, mixFactor |-> Num(0), disposed |-> 0]

\* the value each fragment hands to the colour ramp: texture2D(dataMap).r, or
\* mix(oldValue, newValue, mixFactor) under the transition material
ShaderValues(w, m) ==
    IF m.kind = "plain" THEN w.textures[m.dataMap].data
    ELSE [i \in DOMAIN w.textures[m.oldDataMap].data |->
             Mix(w.textures[m.oldDataMap].data[i], w.textures[m.newDataMap].data[i],
                 m.mixFactor)]

\* rawProgress >= 1: the sphere gets a plain material over the new texture;
\* the transition material and the old texture are disposed
CompleteTransition(w, k) ==
    LET mid    == w.scenes[k].material
        m      == w.materials[mid]
        newMid == Len(w.materials) + 1
        w1 == [w EXCEPT !.materials = Append([@ EXCEPT ![mid].disposed = @ + 1],
                                             CreateShaderMaterial(m.newDataMap)),
                        !.scenes[k].material = newMid]
        w2 == IF m.oldDataMap # 0
              THEN [w1 EXCEPT !.textures[m.oldDataMap].disposed = @ + 1]
              ELSE w1
        w3 == [w2 EXCEPT !.transitionRef.isTransitioning = FALSE]
    IN  IF w.sceneRef # 0
        THEN [w3 EXCEPT !.scenes[w.sceneRef].pausedForTransition = FALSE]
        ELSE w3

\* "Handle texture transition" of animate, for the loop of scene k at time t.
\* Under a material without a mixFactor uniform the assignment
\* uniforms.mixFactor.value = progress throws a TypeError.
AnimateTransition(w, k, t) ==
    LET tr  == w.transitionRef
        mid == w.scenes[k].material
        m   == w.materials[mid]
    IN  IF ~(tr.set /\ tr.isTransitioning) THEN w
        ELSE IF m.kind # "transition" THEN [w EXCEPT !.scenes[k].threw = TRUE]
        ELSE LET elapsed     == t - tr.startTime
                 rawProgress == MathMin(JsDiv(Num(elapsed), Num(tr.duration)), Num(1))
                 progress    == EaseInOutCubic(rawProgress)
             IN  Only({IF JsLe(Num(1), rawProgress) THEN CompleteTransition(w1, k) ELSE w1 :
                          w1 \in {[w EXCEPT !.materials[mid].mixFactor = progress]}})

\* one frame of the render loop of scene k: the next frame is requested
\* first (its id replaces the one any sceneRef record held), then the
\* transition is advanced, the scene rendered and the id stored
Animate(w, k, t) ==
    LET w0 == [w EXCEPT !.scenes =
                  [j \in DOMAIN @ |->
                      [@[j] EXCEPT !.loop = IF j = k THEN TRUE ELSE @,
                                   !.threw = IF j = k THEN FALSE ELSE @,
                                   !.animationId = IF @ = k THEN 0 ELSE @]]]
        Render(w1) ==
            IF w1.scenes[k].threw THEN w1
            ELSE IF w1.sceneRef # 0
                 THEN [w1 EXCEPT !.scenes[k].frame =
                                     ShaderValues(w1, w1.materials[w1.scenes[k].material]),
                                 !.scenes[w1.sceneRef].animationId = k]
                 ELSE [w1 EXCEPT !.scenes[k].frame =
                                     ShaderValues(w1, w1.materials[w1.scenes[k].material])]
    IN  Only({Render(w1) : w1 \in {AnimateTransition(x, k, t) : x \in {w0}}})

\* cancelAnimationFrame(sceneRef.current.animationId); renderer.dispose();
\* sceneRef.current = null
Teardown(w) ==
    LET k == w.sceneRef
        j == w.scenes[k].animationId
        w1 == IF j # 0 THEN [w EXCEPT !.scenes[j].loop = FALSE] ELSE w
    IN  [w1 EXCEPT !.scenes[k].rendererDisposed = TRUE,
                   !.scenes[k].animationId = 0,
                   !.sceneRef = 0]

\* builds the scene: data texture, plain material, sphere; calls animate()
\* once, and only then sets sceneRef.current
InitThreeJS(w, p, t) ==
    LET tex == Len(w.textures) + 1
        mat == Len(w.materials) + 1
        k   == Len(w.scenes) + 1
        wa  == IF w.sceneRef # 0 THEN [Teardown(w) EXCEPT !.sceneRef = w.sceneRef] ELSE w
        wb  == [wa EXCEPT
                  !.textures = Append(@, [data |-> CreateDataTexture(p.fitsData.fits,
                                              p.useFixedScale, ParseFloat(p.fixedMin),
                                              ParseFloat(p.fixedMax)),
                                          disposed |-> 0]),
                  !.materials = Append(@, CreateShaderMaterial(tex)),
                  !.scenes = Append(@, [material |-> mat, loop |-> FALSE, animationId |-> 0,
                                        pausedForTransition |-> FALSE,
                                        rendererDisposed |-> FALSE,
                                        frame |-> <<>>, threw |-> FALSE])]
    IN  Only({IF wc.scenes[k].threw THEN [wc EXCEPT !.crashed = TRUE]
              ELSE [wc EXCEPT !.sceneRef = k] :
                  wc \in {Animate(x, k, t) : x \in {wb}}})

\* effect "Initialize Three.js scene", deps [show2DMap]
InitEffect(w, p, t) ==
    IF p.fitsData.id # 0 /\ ~p.show2DMap /\ w.sceneRef = 0 THEN
        Only({IF wi.crashed THEN wi
              ELSE [wi EXCEPT !.currentFitsDataRef = p.fitsData.id] :
                  wi \in {InitThreeJS(w, p, t)}})
    ELSE IF p.fitsData.id = 0 \/ p.show2DMap THEN
        (IF w.sceneRef # 0 THEN Teardown(w) ELSE w)
    ELSE w

\* its cleanup, which sees the show2DMap of the render that created it
InitCleanup(w, oldShow2DMap) ==
    IF oldShow2DMap /\ w.sceneRef # 0 THEN Teardown(w) ELSE w

\* the body shared by the data-change and the scale-change effects: a
\* transition is begun only when the current material has a dataMap uniform
BeginTransition(w, p, t) ==
    LET k   == w.sceneRef
        cur == w.scenes[k].material
        oldDataTexture == IF w.materials[cur].kind = "plain"
                          THEN w.materials[cur].dataMap ELSE 0
        newDataTexture == Len(w.textures) + 1
        newMid == Len(w.materials) + 1
        w1 == [w EXCEPT
                 !.scenes[k].pausedForTransition = TRUE,
                 !.textures = Append(@, [data |-> CreateDataTexture(p.fitsData.fits,
                                             p.useFixedScale, ParseFloat(p.fixedMin),
                                             ParseFloat(p.fixedMax)),
                                         disposed |-> 0])]
    IN  IF oldDataTexture # 0
        THEN [w1 EXCEPT
                !.materials = Append([@ EXCEPT ![cur].disposed = @ + 1],
                                     CreateTransitionShaderMaterial(oldDataTexture,
                                                                    newDataTexture)),
                !.scenes[k].material = newMid,
                !.transitionRef = [set |-> TRUE, isTransitioning |-> TRUE,
                                   startTime |-> t, duration |-> Duration3D]]
        ELSE [w1 EXCEPT
                !.materials = Append(@, CreateShaderMaterial(newDataTexture)),
                !.scenes[k].material = newMid]

\* effect "Handle FITS data changes",
\* deps [fitsData, show2DMap, useFixedScale, fixedMin, fixedMax]
FitsDataEffect(w, p, t) ==
    IF w.sceneRef # 0 /\ p.fitsData.id # 0 /\ ~p.show2DMap
       /\ w.currentFitsDataRef # p.fitsData.id
    THEN [BeginTransition(w, p, t) EXCEPT !.currentFitsDataRef = p.fitsData.id]
    ELSE w

\* effect "Handle scale changes", deps [useFixedScale, fixedMin, fixedMax]
ScaleEffect(w, p, t) ==
    IF w.sceneRef # 0 /\ p.fitsData.id # 0 /\ ~p.show2DMap
       /\ w.currentFitsDataRef = p.fitsData.id
    THEN BeginTransition(w, p, t)
    ELSE w

-----------------------------------------------------------------------------
(* The crossfade of the 2-D path: use2DRenderer.                           *)

Duration2D == 600

\* oldData.data[i] + (newData.data[i] - oldData.data[i]) * progress, stored
\* into the Uint8ClampedArray of the interpolated ImageData
InterpolateChannel(old, new, progress) ==
    ToUint8Clamped(JsAdd(Num(old), JsMul(Num(new - old), progress)))

InterpolatePixels(oldData, newData, progress) ==
    [i \in DOMAIN oldData |->
        <<InterpolateChannel(oldData[i][1], newData[i][1], progress),
          InterpolateChannel(oldData[i][2], newData[i][2], progress),
          InterpolateChannel(oldData[i][3], newData[i][3], progress),
          255>>]

\* one call of animate2DTransition at time t; canvasMounted: canvas2DRef.current
Animate2DTransition(w, canvasMounted, t) ==
    LET tr == w.transition2DRef
        w0 == [w EXCEPT !.raf2D = FALSE]
    IN  IF ~(tr.set /\ tr.isTransitioning) \/ ~canvasMounted THEN w0
        ELSE LET elapsed     == t - tr.startTime
                 rawProgress == MathMin(JsDiv(Num(elapsed), Num(tr.duration)), Num(1))
                 progress    == EaseInOutCubic(rawProgress)
                 w1 == [w0 EXCEPT !.canvas = InterpolatePixels(tr.oldImageData,
                                                               tr.newImageData, progress)]
             IN  IF JsLt(rawProgress, Num(1))
                 THEN [w1 EXCEPT !.raf2D = TRUE]
                 ELSE [w1 EXCEPT !.transition2DRef.isTransitioning = FALSE]

\* the effect of use2DRenderer,
\* deps [fitsData, show2DMap, useFixedScale, fixedMin, fixedMax].
\* A blank canvas (or one of another size) is painted at once; otherwise a
\* transition from the pixels now on the canvas is started.
Draw2DEffect(w, p, t) ==
    IF p.fitsData.id # 0 /\ p.show2DMap THEN
        LET oldImageData == w.canvas
            newImageData == CreateImageDataFromFits(p.fitsData.fits, p.useFixedScale,
                                ParseFloat(p.fixedMin), ParseFloat(p.fixedMax))
        IN  IF oldImageData = <<>> \/ Len(oldImageData) # Len(newImageData)
            THEN [w EXCEPT !.canvas = newImageData]
            ELSE Only({Animate2DTransition(w1, TRUE, t) :
                          w1 \in {[w EXCEPT !.raf2D = FALSE,
                                            !.canvas = oldImageData,
                                            !.transition2DRef =
                                                [set |-> TRUE, isTransitioning |-> TRUE,
                                                 startTime |-> t, duration |-> Duration2D,
                                                 oldImageData |-> oldImageData,
                                                 newImageData |-> newImageData]]}})
    ELSE w

-----------------------------------------------------------------------------
(* parseFITS: the header scan over 2880-byte blocks of 80-character cards, *)
(* then the big-endian samples that follow the last scanned block.         *)
(* A file is [blocks, payload]: blocks are the header blocks, each a       *)
(* sequence of cards [kw, eq, val] (kw is how the line starts, eq whether  *)
(* it holds "=", val the text between "=" and "/", trimmed); payload is    *)
(* the bytes after them.                                                   *)

BlockSize == 2880

Card(kw, val) == [kw |-> kw, eq |-> TRUE, val |-> val]

\* a keyword line with no "=": line.split("=")[1] is undefined
CardNoEq(kw) == [kw |-> kw, eq |-> FALSE, val |-> ""]

\* parseInt on the value texts a card can hold here
ParseInt(s) ==
    CASE s = "-64" -> Num(-64)
      [] s = "-32" -> Num(-32)
      [] s = "-1"  -> Num(-1)
      [] s = "0"   -> Num(0)
      [] s = "1"   -> Num(1)
      [] s = "2"   -> Num(2)
      [] s = "8"   -> Num(8)
      [] s = "16"  -> Num(16)
      [] s = "32"  -> Num(32)
      [] s = "64"  -> Num(64)
      [] OTHER     -> NaN

ByteLength(file) == BlockSize * Len(file.blocks) + Len(file.payload)

\* !x on a number
Falsy(a) == IsNaN(a) \/ JsEq(a, Num(0))

ScanStart ==
    [offset |-> 0, width |-> Num(0), height |-> Num(0), bitpix |-> Num(0),
     headerComplete |-> FALSE, threw |-> FALSE]

\* one line of the block
ScanLine(st, line) ==
    IF line.kw \in {"NAXIS1", "NAXIS2", "BITPIX"} /\ ~line.eq
    THEN [st EXCEPT !.threw = TRUE]
    ELSE CASE line.kw = "NAXIS1" -> [st EXCEPT !.width = ParseInt(line.val)]
           [] line.kw = "NAXIS2" -> [st EXCEPT !.height = ParseInt(line.val)]
           [] line.kw = "BITPIX" -> [st EXCEPT !.bitpix = ParseInt(line.val)]
           [] line.kw = "END"    -> [st EXCEPT !.headerComplete = TRUE]
           [] OTHER              -> st

\* a scan that reads on after END
RECURSIVE ScanLinesPastEnd(_, _, _)
ScanLinesPastEnd(st, blockLines, i) ==
    IF i > Len(blockLines) \/ st.threw THEN st
    ELSE ScanLinesPastEnd(Only({ScanLine(s, blockLines[i]) : s \in {st}}),
                          blockLines, i + 1)

\* for (const line of lines), left by break at END
RECURSIVE ScanLines(_, _, _)
ScanLines(st, blockLines, i) ==
    IF i > Len(blockLines) \/ st.threw \/ st.headerComplete THEN st
    ELSE ScanLines(Only({ScanLine(s, blockLines[i]) : s \in {st}}), blockLines, i + 1)

\* while (!headerComplete && offset < arrayBuffer.byteLength); the view of
\* the block throws a RangeError when the buffer ends before offset + 2880
RECURSIVE ScanHeader(_, _)
ScanHeader(file, st) ==
    IF st.threw \/ st.headerComplete \/ ~(st.offset < ByteLength(file)) THEN st
    ELSE IF st.offset + BlockSize > ByteLength(file) THEN [st EXCEPT !.threw = TRUE]
    ELSE ScanHeader(file,
            Only({[s EXCEPT !.offset = @ + BlockSize] :
                    s \in {ScanLines(st, file.blocks[(st.offset \div BlockSize) + 1], 1)}}))

\* the byte at an absolute offset at or after the header blocks
ByteAt(file, i) == file.payload[i - BlockSize * Len(file.blocks) + 1]

RECURSIVE Pow2(_)
Pow2(n) == IF n = 0 THEN 1 ELSE 2 * Pow2(n - 1)

\* m * 2^x as a number
Scaled(m, x) == IF m = 0 THEN Num(0)
                ELSE IF x >= 0 THEN Num(m * Pow2(x)) ELSE Rat(m, Pow2(-x))

GetUint8(file, o) == Num(ByteAt(file, o))

GetInt16(file, o) ==
    LET hi == ByteAt(file, o)
    IN  Num((IF hi >= 128 THEN hi - 256 ELSE hi) * 256 + ByteAt(file, o + 1))

GetInt32(file, o) ==
    LET hi == ByteAt(file, o)
    IN  Num((IF hi >= 128 THEN hi - 256 ELSE hi) * 16777216
            + ByteAt(file, o + 1) * 65536 + ByteAt(file, o + 2) * 256
            + ByteAt(file, o + 3))

\* IEEE 754 binary32: sign, 8 exponent bits, 23 fraction bits
GetFloat32(file, o) ==
    LET b0   == ByteAt(file, o)
        b1   == ByteAt(file, o + 1)
        sign == IF b0 >= 128 THEN -1 ELSE 1
        e    == (b0 % 128) * 2 + (b1 \div 128)
        m    == (b1 % 128) * 65536 + ByteAt(file, o + 2) * 256 + ByteAt(file, o + 3)
    IN  IF e = 255 THEN (IF m = 0 THEN Inf(sign) ELSE NaN)
        ELSE IF e = 0 THEN Scaled(sign * m, -149)
        ELSE Scaled(sign * (8388608 + m), e - 150)

\* IEEE 754 binary64: sign, 11 exponent bits, 52 fraction bits (the upper 20
\* in bytes 1..3, the lower 32 in bytes 4..7)
GetFloat64(file, o) ==
    LET b0   == ByteAt(file, o)
        b1   == ByteAt(file, o + 1)
        sign == IF b0 >= 128 THEN -1 ELSE 1
        e    == (b0 % 128) * 16 + (b1 \div 16)
        mh   == (b1 % 16) * 65536 + ByteAt(file, o + 2) * 256 + ByteAt(file, o + 3)
        low  == [j \in 4..7 |-> ByteAt(file, o + j)]
        zero == \A j \in 4..7 : low[j] = 0
        x    == IF e = 0 THEN -1074 ELSE e - 1075
        lowPart ==
            JsAdd(JsAdd(Scaled(sign * low[4], x + 24), Scaled(sign * low[5], x + 16)),
                  JsAdd(Scaled(sign * low[6], x + 8), Scaled(sign * low[7], x)))
        highPart == Scaled(sign * ((IF e = 0 THEN 0 ELSE 1048576) + mh), x + 32)
    IN  IF e = 2047 THEN (IF mh = 0 /\ zero THEN Inf(sign) ELSE NaN)
        ELSE IF zero THEN highPart ELSE JsAdd(highPart, lowPart)

\* bytes the getter of this BITPIX reads
SampleSize(bitpix) ==
    CASE bitpix = -32 -> 4
      [] bitpix = -64 -> 8
      [] bitpix = 16  -> 2
      [] bitpix = 32  -> 4
      [] OTHER        -> 1

\* offset + (y * width + x) * bytesPerPixel, as the DataView takes it
PixelOffset(offset, width, bitpix, y, x) ==
    offset + ((y * width + x) * Abs(bitpix)) \div 8

\* a DataView getter throws a RangeError outside the buffer
InBuffer(file, o, size) == o >= 0 /\ o + size <= ByteLength(file)

GetValue(file, bitpix, o) ==
    CASE bitpix = -32 -> GetFloat32(file, o)
      [] bitpix = -64 -> GetFloat64(file, o)
      [] bitpix = 16  -> GetInt16(file, o)
      [] bitpix = 32  -> GetInt32(file, o)
      [] OTHER        -> GetUint8(file, o)

\* if (!Number.isFinite(value)) value = 0
Finite(value) == IF IsNum(value) THEN value ELSE Num(0)

RECURSIVE RunMin(_, _)
RunMin(s, m) ==
    IF s = <<>> THEN m ELSE RunMin(Tail(s), IF JsLt(Head(s), m) THEN Head(s) ELSE m)

RECURSIVE RunMax(_, _)
RunMax(s, m) ==
    IF s = <<>> THEN m ELSE RunMax(Tail(s), IF JsLt(m, Head(s)) THEN Head(s) ELSE m)

Null == [ok |-> FALSE]

\* for y < height, for x < width: a loop with a non-positive bound has no turn
LoopRange(n) == IF n > 0 THEN 1..n ELSE {}

ParseFITS(file) ==
    LET st     == Only({ScanHeader(f, ScanStart) : f \in {file}})
        width  == st.width.n
        height == st.height.n
        bitpix == st.bitpix.n
        at(y, x) == PixelOffset(st.offset, width, bitpix, y - 1, x - 1)
        data   == [y \in LoopRange(height) |->
                     [x \in LoopRange(width) |-> Finite(GetValue(file, bitpix, at(y, x)))]]
    IN  IF st.threw THEN Null
        ELSE IF Falsy(st.width) \/ Falsy(st.height) THEN Null
        ELSE IF \E y \in LoopRange(height), x \in LoopRange(width) :
                    ~InBuffer(file, at(y, x), SampleSize(bitpix))
        THEN Null
        ELSE [ok |-> TRUE, data |-> data, width |-> width, height |-> height,
              min |-> RunMin(Flatten(data), Inf(1)),
              max |-> RunMax(Flatten(data), Inf(-1))]

-----------------------------------------------------------------------------
(* Files handed to parseFITS: a FITS writer's header and big-endian        *)
(* samples, with the things a file on disk can have wrong.                 *)

MaxCut == 1

\* what a NAXIS1 / NAXIS2 card can say; "absent": no such card,
\* "noeq": the keyword with no "="
Naxis1Texts == {"1", "2", "0", "-1", "abc", "absent", "noeq"}
Naxis2Texts == {"1", "2", "0", "-1", "absent"}

\* BITPIX of the encodings the dispatch names, of 64-bit integers, and none
SupportedBitpix == {"8", "16", "32", "-32", "-64"}
BitpixTexts == SupportedBitpix \cup {"64", "absent"}

\* "end": END closes the header; "decoy": cards follow END in its block;
\* "none": the header never ends
EndKinds == {"end", "decoy", "none"}

\* bytes cut from the end of the samples, bytes of fill after them
Tails == {[cut |-> c, fill |-> 0] : c \in 0..MaxCut} \cup {[cut |-> 0, fill |-> 2]}

FloatSamples == {Num(-100), Rat(1, 2), NaN, Inf(1), Inf(-1)}
IntSamples == {Num(-100), Num(0), Num(50)}
ByteSamples == {Num(0), Num(50), Num(200)}

SamplePool(bitpixText) ==
    CASE bitpixText \in {"-32", "-64"} -> FloatSamples
      [] bitpixText \in {"16", "32", "64"} -> IntSamples
      [] OTHER -> ByteSamples

EncodeInt16(v) == <<(v.n \div 256) % 256, v.n % 256>>

EncodeInt32(v) ==
    <<(v.n \div 16777216) % 256, (v.n \div 65536) % 256, (v.n \div 256) % 256, v.n % 256>>

EncodeInt64(v) ==
    (IF v.n < 0 THEN <<255, 255, 255, 255>> ELSE <<0, 0, 0, 0>>) \o EncodeInt32(v)

EncodeFloat32(v) ==
    CASE v = Num(-100) -> <<194, 200, 0, 0>>
      [] v = Rat(1, 2) -> <<63, 0, 0, 0>>
      [] v = NaN       -> <<127, 192, 0, 0>>
      [] v = Inf(1)    -> <<127, 128, 0, 0>>
      [] v = Inf(-1)   -> <<255, 128, 0, 0>>

EncodeFloat64(v) ==
    CASE v = Num(-100) -> <<192, 89, 0, 0, 0, 0, 0, 0>>
      [] v = Rat(1, 2) -> <<63, 224, 0, 0, 0, 0, 0, 0>>
      [] v = NaN       -> <<127, 248, 0, 0, 0, 0, 0, 0>>
      [] v = Inf(1)    -> <<127, 240, 0, 0, 0, 0, 0, 0>>
      [] v = Inf(-1)   -> <<255, 240, 0, 0, 0, 0, 0, 0>>

Encode(bitpixText, v) ==
    CASE bitpixText = "-32" -> EncodeFloat32(v)
      [] bitpixText = "-64" -> EncodeFloat64(v)
      [] bitpixText = "16"  -> EncodeInt16(v)
      [] bitpixText = "32"  -> EncodeInt32(v)
      [] bitpixText = "64"  -> EncodeInt64(v)
      [] OTHER              -> <<v.n>>

RECURSIVE EncodeAll(_, _)
EncodeAll(bitpixText, samples) ==
    IF samples = <<>> THEN <<>>
    ELSE Encode(bitpixText, Head(samples)) \o EncodeAll(bitpixText, Tail(samples))

DimCard(kw, text) ==
    CASE text = "absent" -> <<>>
      [] text = "noeq"   -> <<CardNoEq(kw)>>
      [] OTHER           -> <<Card(kw, text)>>

\* the cards a writer puts after END here would make the grid 1 x 1 bytes
Decoy == <<Card("NAXIS1", "1"), Card("NAXIS2", "1"), Card("BITPIX", "8")>>

Closing(endKind) ==
    CASE endKind = "end"   -> <<Card("END", "")>>
      [] endKind = "decoy" -> <<Card("END", "")>> \o Decoy
      [] OTHER             -> <<>>

\* the grid the writer means: NAXIS1 x NAXIS2 samples when both are
\* positive integers, one sample otherwise
Positive(text) == text \in {"1", "2"}

SampleCount(g) ==
    IF Positive(g.naxis1) /\ Positive(g.naxis2)
    THEN ParseInt(g.naxis1).n * ParseInt(g.naxis2).n ELSE 1

WriteFITS(g) ==
    LET first  == <<Card("SIMPLE", "T")>> \o DimCard("BITPIX", g.bitpix)
                    \o <<Card("NAXIS", "2")>>
        second == DimCard("NAXIS1", g.naxis1) \o DimCard("NAXIS2", g.naxis2)
                    \o Closing(g.endKind)
        bytes  == EncodeAll(g.bitpix, g.samples)
    IN  [blocks  |-> IF g.split THEN <<first, second>> ELSE <<first \o second>>,
         payload |-> SubSeq(bytes, 1, Len(bytes) - g.tail.cut)
                        \o [j \in 1..g.tail.fill |-> 0]]

-----------------------------------------------------------------------------
(* Coronal field lines: the dataset fetchCoronalData stores, the effect    *)
(* that builds one THREE.Line per field line, and the crossfade frames.    *)
(* A field line is [points, strengths, polarity]; a THREE.Line is          *)
(* [fieldLineData, polarity, opacity].                                     *)

FieldLineDuration == 800

FieldLine(np, ns, polarity) ==
    [points |-> [i \in 1..np |-> i], strengths |-> [i \in 1..ns |-> i],
     polarity |-> polarity]

NoCoronalData == [id |-> 0, fieldLines |-> <<>>]

\* fieldLineGroup / oldFieldLineGroup and the two refs of the hook
CoronalWorld ==
    [fieldLineGroup |-> fieldLineGroup, oldFieldLineGroup |-> oldFieldLineGroup,
     currentCoronalDataRef |-> currentCoronalDataRef,
     fieldLineTransitionRef |-> fieldLineTransitionRef]

\* new THREE.Line(geometry, material) with its userData
NewLine(fieldLine, hasExistingLines) ==
    [fieldLineData |-> fieldLine, polarity |-> fieldLine.polarity,
     opacity |-> IF hasExistingLines THEN Num(0) ELSE Rat(6, 10)]

\* a loop that adds a line for every field line, however few its points
RECURSIVE AddAllFieldLines(_, _)
AddAllFieldLines(fieldLines, hasExistingLines) ==
    IF fieldLines = <<>> THEN <<>>
    ELSE <<NewLine(Head(fieldLines), hasExistingLines)>>
            \o AddAllFieldLines(Tail(fieldLines), hasExistingLines)

\* coronalData.fieldLines.forEach: lines of fewer than 2 points are skipped
RECURSIVE AddFieldLines(_, _)
AddFieldLines(fieldLines, hasExistingLines) ==
    IF fieldLines = <<>> THEN <<>>
    ELSE (IF Len(Head(fieldLines).points) < 2 THEN <<>>
          ELSE <<NewLine(Head(fieldLines), hasExistingLines)>>)
            \o AddFieldLines(Tail(fieldLines), hasExistingLines)

\* the effect on [coronalData]: the lines shown move to the old group and a
\* crossfade starts, or they are disposed; then the new lines are added
CoronalEffect(w, sceneExists, data, t) ==
    IF ~sceneExists \/ data.id = 0 THEN w
    ELSE LET hasExistingLines == Len(w.fieldLineGroup) > 0
             moves == hasExistingLines /\ w.currentCoronalDataRef # data.id
         IN  [fieldLineGroup |-> AddFieldLines(data.fieldLines, hasExistingLines),
              oldFieldLineGroup |->
                  IF moves THEN w.fieldLineGroup ELSE w.oldFieldLineGroup,
              fieldLineTransitionRef |->
                  IF moves
                  THEN [set |-> TRUE, isTransitioning |-> TRUE, startTime |-> t,
                        duration |-> FieldLineDuration]
                  ELSE w.fieldLineTransitionRef,
              currentCoronalDataRef |-> data.id]

SetOpacity(group, opacity) == [i \in DOMAIN group |-> [group[i] EXCEPT !.opacity = opacity]]

\* the field-line part of a frame: old lines fade out, new lines fade in,
\* and at rawProgress 1 the old lines are disposed and removed
AnimateFieldLines(w, sceneExists, t) ==
    LET tr == w.fieldLineTransitionRef
    IN  IF ~(tr.set /\ tr.isTransitioning /\ sceneExists) THEN w
        ELSE LET elapsed     == t - tr.startTime
                 rawProgress == MathMin(JsDiv(Num(elapsed), Num(tr.duration)), Num(1))
                 progress    == Only({EaseInOutCubic(r) : r \in {rawProgress}})
                 done        == JsLe(Num(1), rawProgress)
             IN  [w EXCEPT
                    !.oldFieldLineGroup =
                        IF done THEN <<>>
                        ELSE SetOpacity(@, JsMul(Rat(6, 10), JsSub(Num(1), progress))),
                    !.fieldLineGroup = SetOpacity(@, JsMul(Rat(6, 10), progress)),
                    !.fieldLineTransitionRef.isTransitioning = ~done]

-----------------------------------------------------------------------------
(* Spec: the viewer, its two hooks and the clock.                          *)

NoFits == [id |-> 0, fits |-> FitsOf(<<<<0, 0>>>>)]

NoTransition == [set |-> FALSE, isTransitioning |-> FALSE, startTime |-> 0, duration |-> 0]

NoTransition2D ==
    [set |-> FALSE, isTransitioning |-> FALSE, startTime |-> 0, duration |-> 0,
     oldImageData |-> <<>>, newImageData |-> <<>>]

ViewerOff ==
    /\ mounted = FALSE
    /\ crashed = FALSE
    /\ fitsData = NoFits
    /\ show2DMap = FALSE
    /\ useFixedScale = FALSE
    /\ fixedMin = "-500"
    /\ fixedMax = "500"
    /\ sceneRef = 0
    /\ scenes = <<>>
    /\ currentFitsDataRef = 0
    /\ transitionRef = NoTransition
    /\ textures = <<>>
    /\ materials = <<>>
    /\ canvas = <<>>
    /\ transition2DRef = NoTransition2D
    /\ raf2D = FALSE
    /\ now = 0
    /\ events = 0

\* the refs and objects after the effects of a commit; an effect that threw
\* makes React unmount the tree
Commit(w) ==
    /\ sceneRef' = w.sceneRef
    /\ scenes' = w.scenes
    /\ currentFitsDataRef' = w.currentFitsDataRef
    /\ transitionRef' = w.transitionRef
    /\ textures' = w.textures
    /\ materials' = w.materials
    /\ canvas' = w.canvas
    /\ transition2DRef' = w.transition2DRef
    /\ raf2D' = w.raf2D
    /\ crashed' = w.crashed
    /\ mounted' = ~w.crashed

\* the viewer is mounted with a decoded grid: every effect runs, in order
Mount(rows) ==
    /\ ~mounted /\ ~crashed /\ fitsData.id = 0
    /\ \E p \in {Props([id |-> 1, fits |-> FitsOf(rows)],
                        show2DMap, useFixedScale, fixedMin, fixedMax)} :
       \E w0 \in {World} :
       \E w1 \in {InitEffect(w0, p, now)} :
       \E w2 \in {FitsDataEffect(w1, p, now)} :
       \E w3 \in {ScaleEffect(w2, p, now)} :
       \E w4 \in {Draw2DEffect(w3, p, now)} :
           /\ fitsData' = p.fitsData
           /\ Commit(w4)
    /\ UNCHANGED <<show2DMap, useFixedScale, fixedMin, fixedMax, now, events, nvars, cvars, fvars, lvars, xvars>>

\* a new FITSData object arrives (navigation, upload)
SetFitsData(rows) ==
    /\ mounted /\ events < MaxEvents
    /\ events' = events + 1
    /\ \E p \in {Props([id |-> fitsData.id + 1, fits |-> FitsOf(rows)],
                        show2DMap, useFixedScale, fixedMin, fixedMax)} :
       \E w0 \in {World} :
       \E w1 \in {FitsDataEffect(w0, p, now)} :
       \E w2 \in {Draw2DEffect(w1, p, now)} :
           /\ fitsData' = p.fitsData
           /\ Commit(w2)
    /\ UNCHANGED <<show2DMap, useFixedScale, fixedMin, fixedMax, now, nvars, cvars, fvars, lvars, xvars>>

\* the effects that depend on useFixedScale, fixedMin, fixedMax
ScaleChanged(p) ==
    \E w0 \in {World} :
    \E w1 \in {FitsDataEffect(w0, p, now)} :
    \E w2 \in {ScaleEffect(w1, p, now)} :
    \E w3 \in {Draw2DEffect(w2, p, now)} :
        Commit(w3)

\* the "Fixed Scale Mode" checkbox
SetUseFixedScale ==
    /\ mounted /\ events < MaxEvents
    /\ events' = events + 1
    /\ useFixedScale' = ~useFixedScale
    /\ ScaleChanged(Props(fitsData, show2DMap, ~useFixedScale, fixedMin, fixedMax))
    /\ UNCHANGED <<fitsData, show2DMap, fixedMin, fixedMax, now, nvars, cvars, fvars, lvars, xvars>>

\* the Min input, shown in fixed-scale mode
SetFixedMin(str) ==
    /\ mounted /\ events < MaxEvents
    /\ events' = events + 1
    /\ useFixedScale /\ str # fixedMin
    /\ fixedMin' = str
    /\ ScaleChanged(Props(fitsData, show2DMap, useFixedScale, str, fixedMax))
    /\ UNCHANGED <<fitsData, show2DMap, useFixedScale, fixedMax, now, nvars, cvars, fvars, lvars, xvars>>

\* the Max input, shown in fixed-scale mode
SetFixedMax(str) ==
    /\ mounted /\ events < MaxEvents
    /\ events' = events + 1
    /\ useFixedScale /\ str # fixedMax
    /\ fixedMax' = str
    /\ ScaleChanged(Props(fitsData, show2DMap, useFixedScale, fixedMin, str))
    /\ UNCHANGED <<fitsData, show2DMap, useFixedScale, fixedMin, now, nvars, cvars, fvars, lvars, xvars>>

\* the 2D Map / 3D Globe button: the canvas exists only while show2DMap, so
\* it is a fresh one after the toggle; the cleanup of the Initialize effect
\* runs before the effects
Toggle2D ==
    /\ mounted /\ events < MaxEvents
    /\ events' = events + 1
    /\ show2DMap' = ~show2DMap
    /\ \E p \in {Props(fitsData, ~show2DMap, useFixedScale, fixedMin, fixedMax)} :
       \E wc \in {[World EXCEPT !.canvas = <<>>]} :
       \E w0 \in {InitCleanup(wc, show2DMap)} :
       \E w1 \in {InitEffect(w0, p, now)} :
       \E w2 \in {FitsDataEffect(w1, p, now)} :
       \E w3 \in {Draw2DEffect(w2, p, now)} :
           Commit(w3)
    /\ UNCHANGED <<fitsData, useFixedScale, fixedMin, fixedMax, now, nvars, cvars, fvars, lvars, xvars>>

\* the View Another button: handleReset clears fitsData, the parent renders
\* the upload view instead and the viewer is unmounted; the only cleanup
\* that touches the scene is the one of the Initialize effect, which sees
\* the show2DMap of the last render (fitsData stays the last prop here)
Unmount ==
    /\ mounted /\ events < MaxEvents
    /\ events' = events + 1
    /\ mounted' = FALSE
    /\ \E w0 \in {World} : \E w \in {InitCleanup(w0, show2DMap)} :
           /\ sceneRef' = w.sceneRef
           /\ scenes' = w.scenes
    /\ UNCHANGED <<crashed, fitsData, show2DMap, useFixedScale, fixedMin, fixedMax,
                   currentFitsDataRef, transitionRef, textures, materials, dvars,
                   now, nvars, cvars, fvars, lvars, xvars>>

\* the browser runs the scheduled frame of scene k's render loop, dt ms
\* after the previous event
Tick(k, dt) ==
    /\ k \in DOMAIN scenes /\ scenes[k].loop
    /\ now + dt <= MaxTime
    /\ now' = now + dt
    /\ \E w0 \in {World} : \E w \in {Animate(w0, k, now + dt)} :
           /\ sceneRef' = w.sceneRef
           /\ scenes' = w.scenes
           /\ transitionRef' = w.transitionRef
           /\ textures' = w.textures
           /\ materials' = w.materials
    /\ UNCHANGED <<currentFitsDataRef, dvars, pvars, events, nvars, cvars, fvars, lvars, xvars>>

\* the browser runs the scheduled frame of animate2DTransition
Tick2D(dt) ==
    /\ raf2D
    /\ now + dt <= MaxTime
    /\ now' = now + dt
    /\ \E w0 \in {World} : \E w \in {Animate2DTransition(w0, show2DMap, now + dt)} :
           /\ canvas' = w.canvas
           /\ transition2DRef' = w.transition2DRef
           /\ raf2D' = w.raf2D
    /\ UNCHANGED <<svars, pvars, events, nvars, cvars, fvars, lvars, xvars>>

-----------------------------------------------------------------------------
(* The harnesses at rest: what a specification that does not use them      *)
(* starts them as.                                                         *)

NormOff ==
    /\ nFits = <<>>
    /\ nUseFixed = FALSE
    /\ nMin = ""
    /\ nMax = ""
    /\ nTexture = <<>>
    /\ nImage = <<>>
    /\ nPhase = "off"

ColorOff ==
    /\ cIn = NaN
    /\ cOut = <<>>
    /\ cPhase = "off"

FitsOff ==
    /\ fGen = <<>>
    /\ fFile = <<>>
    /\ fResult = <<>>
    /\ fPhase = "off"

CoronalOff ==
    /\ lFetches = 0
    /\ lScene = FALSE
    /\ coronalData = NoCoronalData
    /\ coronalError = ""
    /\ fieldLineGroup = <<>>
    /\ oldFieldLineGroup = <<>>
    /\ currentCoronalDataRef = 0
    /\ fieldLineTransitionRef = NoTransition

GlobeOff ==
    /\ lMoved = 0
    /\ lDisposed = 0

ServerOff ==
    /\ sReq = <<>>
    /\ sUpstream = <<>>
    /\ sRes = <<>>
    /\ sPhase = "off"

NavOff ==
    /\ currentCRNumber = 0
    /\ fetchError = ""
    /\ isNavigating = FALSE
    /\ isFetching = FALSE
    /\ isProcessing = FALSE
    /\ dataSource = <<>>
    /\ isLoadingCoronal = FALSE
    /\ requests = {}
    /\ issued = 0
    /\ afterReset = FALSE

HarnessOff == GlobeOff /\ ServerOff /\ NavOff

Init == ViewerOff /\ NormOff /\ ColorOff /\ FitsOff /\ CoronalOff /\ HarnessOff

Next ==
    \/ \E rows \in SceneRows : Mount(rows)
    \/ \E rows \in SceneRows : SetFitsData(rows)
    \/ SetUseFixedScale
    \/ \E str \in SceneInputs : SetFixedMin(str)
    \/ \E str \in SceneInputs : SetFixedMax(str)
    \/ Toggle2D
    \/ Unmount
    \/ \E k \in DOMAIN scenes, dt \in TickSteps : Tick(k, dt)
    \/ \E dt \in TickSteps : Tick2D(dt)

Spec == Init /\ [][Next]_vars

-----------------------------------------------------------------------------
(* SpecNorm: the normalizer and the colour ramp applied to every grid and  *)
(* every scale setting of the bounds.                                      *)

InitNorm ==
    /\ nFits \in {FitsOf(r) : r \in Rows(GridW, GridH)}
    /\ nUseFixed \in BOOLEAN
    /\ nMin \in NumberInputs
    /\ nMax \in NumberInputs
    /\ nTexture = <<>>
    /\ nImage = <<>>
    /\ nPhase = "input"
    /\ ColorOff
    /\ FitsOff
    /\ CoronalOff
    /\ ViewerOff
    /\ HarnessOff

CallCreateDataTexture ==
    /\ nPhase = "input"
    /\ nTexture' = CreateDataTexture(nFits, nUseFixed, ParseFloat(nMin), ParseFloat(nMax))
    /\ nPhase' = "texture"
    /\ UNCHANGED <<nFits, nUseFixed, nMin, nMax, nImage, cvars, fvars, lvars, xvars, pvars, svars, dvars, now, events>>

CallCreateImageData ==
    /\ nPhase = "input"
    /\ nImage' = CreateImageDataFromFits(nFits, nUseFixed, ParseFloat(nMin), ParseFloat(nMax))
    /\ nPhase' = "image"
    /\ UNCHANGED <<nFits, nUseFixed, nMin, nMax, nTexture, cvars, fvars, lvars, xvars, pvars, svars, dvars, now, events>>

NextNorm ==
    \/ CallCreateDataTexture
    \/ CallCreateImageData

SpecNorm == InitNorm /\ [][NextNorm]_vars

-----------------------------------------------------------------------------
(* SpecColor: getColorForValue applied to every sample point of [0, 1].    *)

ColorInputs == {Rat(i, ColorRes) : i \in 0..ColorRes}

InitColor ==
    /\ cIn \in ColorInputs
    /\ cOut = <<>>
    /\ cPhase = "input"
    /\ NormOff
    /\ FitsOff
    /\ CoronalOff
    /\ ViewerOff
    /\ HarnessOff

CallGetColorForValue ==
    /\ cPhase = "input"
    /\ cOut' = GetColorForValue(cIn)
    /\ cPhase' = "done"
    /\ UNCHANGED <<cIn, nvars, fvars, lvars, xvars, pvars, svars, dvars, now, events>>

NextColor == CallGetColorForValue

SpecColor == InitColor /\ [][NextColor]_vars

-----------------------------------------------------------------------------
(* SpecFits: parseFITS on every file the writer above can produce.         *)

InitFits ==
    /\ \E naxis1 \in Naxis1Texts, naxis2 \in Naxis2Texts, bitpix \in BitpixTexts,
          endKind \in EndKinds, split \in BOOLEAN, tail \in Tails :
         \E samples \in [1..SampleCount([naxis1 |-> naxis1, naxis2 |-> naxis2])
                            -> SamplePool(bitpix)] :
            fGen = [naxis1 |-> naxis1, naxis2 |-> naxis2, bitpix |-> bitpix,
                    endKind |-> endKind, split |-> split, tail |-> tail,
                    samples |-> samples]
    /\ fFile = WriteFITS(fGen)
    /\ fResult = <<>>
    /\ fPhase = "input"
    /\ NormOff
    /\ ColorOff
    /\ CoronalOff
    /\ ViewerOff
    /\ HarnessOff

CallParseFITS ==
    /\ fPhase = "input"
    /\ fResult' = ParseFITS(fFile)
    /\ fPhase' = "done"
    /\ UNCHANGED <<fGen, fFile, nvars, cvars, lvars, xvars, pvars, svars, dvars, now, events>>

NextFits == CallParseFITS

SpecFits == InitFits /\ [][NextFits]_vars

-----------------------------------------------------------------------------
(* SpecCoronal: fetchCoronalData against every answer of the server, and   *)
(* the frames of the globe in between.                                     *)

MaxFetches == 2
MaxLines == 2

FieldLineShapes ==
    {FieldLine(0, 0, "closed"), FieldLine(1, 1, "open"),
     FieldLine(2, 1, "closed"), FieldLine(3, 3, "open")}

\* the fieldLines of the JSON file the server sends back
CoronalDatasets == UNION {[1..n -> FieldLineShapes] : n \in 0..MaxLines}

\* GET /api/coronal/:crNumber: the dataset, or 404
CoronalResponses ==
    {[ok |-> TRUE, fieldLines |-> d] : d \in CoronalDatasets}
        \cup {[ok |-> FALSE, fieldLines |-> <<>>]}

InitCoronal ==
    /\ lFetches = 0
    /\ lScene \in BOOLEAN
    /\ coronalData = NoCoronalData
    /\ coronalError = ""
    /\ fieldLineGroup = <<>>
    /\ oldFieldLineGroup = <<>>
    /\ currentCoronalDataRef = 0
    /\ fieldLineTransitionRef = NoTransition
    /\ NormOff
    /\ ColorOff
    /\ FitsOff
    /\ ViewerOff
    /\ HarnessOff

CommitCoronal(w) ==
    /\ fieldLineGroup' = w.fieldLineGroup
    /\ oldFieldLineGroup' = w.oldFieldLineGroup
    /\ currentCoronalDataRef' = w.currentCoronalDataRef
    /\ fieldLineTransitionRef' = w.fieldLineTransitionRef

\* fetchCoronalData(crNumber) to its end: the answer is stored as it came
\* (or the error is), and the effect on [coronalData] runs in that commit
FetchCoronalData(response) ==
    /\ lFetches < MaxFetches
    /\ lFetches' = lFetches + 1
    /\ IF response.ok
       THEN /\ coronalData' = [id |-> lFetches + 1, fieldLines |-> response.fieldLines]
            /\ coronalError' = ""
       ELSE /\ coronalData' = NoCoronalData
            /\ coronalError' = "not found"
    /\ \E w \in {CoronalEffect(CoronalWorld, lScene, coronalData', now)} :
          CommitCoronal(w)
    /\ UNCHANGED <<lScene, xvars, nvars, cvars, fvars, pvars, svars, dvars, now, events>>

\* a frame of the globe after dt milliseconds
TickFieldLines(dt) ==
    /\ lScene
    /\ now + dt <= MaxTime
    /\ now' = now + dt
    /\ \E w \in {AnimateFieldLines(CoronalWorld, lScene, now')} : CommitCoronal(w)
    /\ UNCHANGED <<lFetches, lScene, coronalData, coronalError,
                   xvars, nvars, cvars, fvars, pvars, svars, dvars, events>>

NextCoronal ==
    \/ \E response \in CoronalResponses : FetchCoronalData(response)
    \/ \E dt \in TickSteps : TickFieldLines(dt)

SpecCoronal == InitCoronal /\ [][NextCoronal]_vars

-----------------------------------------------------------------------------
(* Properties of the normalizer (SpecNorm)                                 *)

\* the bounds createDataTexture resolves for the harness inputs
nResolvedMin == ScaleMin(nFits, nUseFixed, ParseFloat(nMin), ParseFloat(nMax))

nResolvedMax == ScaleMax(nFits, nUseFixed, ParseFloat(nMin), ParseFloat(nMax))

nSamples == Flatten(nFits.data)

InUnit(a) == IsNum(a) /\ JsLe(Num(0), a) /\ JsLe(a, Num(1))

\* C6 (as claimed): when the resolved bounds satisfy min == max, every
\* normalized sample is 0.5 and never NaN, on the texture path and (as the
\* colour of 0.5) on the image path.
C6_DegenerateRangeIsHalf ==
    JsEq(nResolvedMin, nResolvedMax) =>
        /\ nPhase = "texture" =>
              \A i \in DOMAIN nTexture : ~IsNaN(nTexture[i]) /\ JsEq(nTexture[i], Rat(1, 2))
        /\ nPhase = "image" =>
              \A i \in DOMAIN nImage : nImage[i] = Pixel(GetColorForValue(Rat(1, 2)))

\* C8 (as claimed): for every grid and every scale setting, every sample of
\* the normalized output lies in [0, 1].
C8_NormalizedInUnitInterval ==
    nPhase = "texture" => \A i \in DOMAIN nTexture : InUnit(nTexture[i])

\* C9 (as claimed): in Auto mode every sample equal to observedMin maps to
\* exactly 0 and every sample equal to observedMax maps to exactly 1, for any
\* grid.
C9_AutoBoundaryAnyGrid ==
    (nPhase = "texture" /\ ~nUseFixed) =>
        \A i \in DOMAIN nTexture :
            /\ JsEq(Num(nSamples[i]), nFits.min) => nTexture[i] = Num(0)
            /\ JsEq(Num(nSamples[i]), nFits.max) => nTexture[i] = Num(1)

\* C9 (amended): in Auto mode, for any grid whose observedMin is below its
\* observedMax, every sample equal to observedMin maps to exactly 0 and every
\* sample equal to observedMax maps to exactly 1.
C9_AutoBoundary ==
    (nPhase = "texture" /\ ~nUseFixed /\ JsLt(nFits.min, nFits.max)) =>
        \A i \in DOMAIN nTexture :
            /\ JsEq(Num(nSamples[i]), nFits.min) => nTexture[i] = Num(0)
            /\ JsEq(Num(nSamples[i]), nFits.max) => nTexture[i] = Num(1)

\* a non-flat grid was normalized in Auto mode
C9_Witness ==
    /\ nPhase = "texture" /\ ~nUseFixed /\ JsLt(nFits.min, nFits.max)
    /\ \E i \in DOMAIN nTexture : JsEq(Num(nSamples[i]), nFits.min) /\ nTexture[i] = Num(0)
    /\ \E i \in DOMAIN nTexture : JsEq(Num(nSamples[i]), nFits.max) /\ nTexture[i] = Num(1)

\* C10 (as claimed): in Fixed mode, whatever the caller's bounds, every
\* sample below min maps to 0, every sample above max maps to 1, and no
\* sample maps outside [0, 1].
C10_FixedClampAnyBounds ==
    (nPhase = "texture" /\ nUseFixed) =>
        \A i \in DOMAIN nTexture :
            /\ JsLt(Num(nSamples[i]), ParseFloat(nMin)) => nTexture[i] = Num(0)
            /\ JsLt(ParseFloat(nMax), Num(nSamples[i])) => nTexture[i] = Num(1)
            /\ InUnit(nTexture[i])

\* C10 (amended): in Fixed mode with numeric bounds min < max, every sample
\* below min maps to 0, every sample above max maps to 1, and no sample maps
\* outside [0, 1], whatever the grid's observed range.
C10_FixedClamp ==
    (nPhase = "texture" /\ nUseFixed /\ JsLt(ParseFloat(nMin), ParseFloat(nMax))) =>
        \A i \in DOMAIN nTexture :
            /\ JsLt(Num(nSamples[i]), ParseFloat(nMin)) => nTexture[i] = Num(0)
            /\ JsLt(ParseFloat(nMax), Num(nSamples[i])) => nTexture[i] = Num(1)
            /\ InUnit(nTexture[i])

\* a grid reaching below min and above max was normalized in Fixed mode
C10_Witness ==
    /\ nPhase = "texture" /\ nUseFixed /\ JsLt(ParseFloat(nMin), ParseFloat(nMax))
    /\ JsLt(nFits.min, ParseFloat(nMin)) /\ JsLt(ParseFloat(nMax), nFits.max)
    /\ \E i \in DOMAIN nTexture : nTexture[i] = Num(0)
    /\ \E i \in DOMAIN nTexture : nTexture[i] = Num(1)

-----------------------------------------------------------------------------
(* Properties of the colour ramp (SpecColor)                               *)

\* the band boundaries 0.40, 0.48, 0.52, 0.60
BandBoundaries == {Rat(2, 5), Rat(12, 25), Rat(13, 25), Rat(3, 5)}

\* t is the sample point just below boundary b
JustBelow(t, b) == JsLt(t, b) /\ JsLe(b, JsAdd(t, Rat(1, ColorRes)))

ChannelsWithin(c1, c2, u) ==
    \A ch \in 1..3 : JsLe(JsSub(c1[ch], c2[ch]), Num(u)) /\ JsLe(JsSub(c2[ch], c1[ch]), Num(u))

\* C7 (as claimed): at each band boundary the colour just below it and the
\* colour at it differ by at most 1 unit per channel.
C7_ContinuousAtBoundaries ==
    cPhase = "done" =>
        \A b \in BandBoundaries :
            JustBelow(cIn, b) => ChannelsWithin(cOut, GetColorForValue(b), 1)

-----------------------------------------------------------------------------
(* Properties of the crossfade (Spec)                                      *)

\* the controller of useThreeScene is Active
Active3D == transitionRef.set /\ transitionRef.isTransitioning

\* the material of the sphere of the scene sceneRef points to
SphereMaterial == materials[scenes[sceneRef].material]

\* the transition material the record in transitionRef was set with: the
\* last one created
TransitionMaterialId ==
    CHOOSE i \in DOMAIN materials :
        /\ materials[i].kind = "transition"
        /\ \A j \in DOMAIN materials : materials[j].kind = "transition" => j <= i

\* the textures a material samples
TexturesOf(m) == IF m.kind = "plain" THEN {m.dataMap} ELSE {m.oldDataMap, m.newDataMap}

\* this step is a run of the data-change or of the scale-change effect on
\* the mounted scene: it uploads one texture
BeginStep == sceneRef # 0 /\ sceneRef' = sceneRef /\ Len(textures') = Len(textures) + 1

\* this step is a frame of the render loop of the mounted scene
FrameStep == sceneRef # 0 /\ \E dt \in TickSteps : Tick(sceneRef, dt)

\* the grid the current props normalize to
CurrentGrid ==
    CreateDataTexture(fitsData.fits, useFixedScale, ParseFloat(fixedMin), ParseFloat(fixedMax))

\* C1 (as claimed): when a transition is begun while another is still
\* active, the superseded transition's material is disposed, and so is each
\* of its two textures that the sphere no longer samples: afterwards only the
\* most recent transition's buffers are undisposed.
C1_SupersedeReleases ==
    [][(BeginStep /\ Active3D /\ SphereMaterial.kind = "transition") =>
          LET old == scenes[sceneRef].material
              m   == materials[old]
          IN  /\ materials'[old].disposed >= 1
              /\ \A x \in TexturesOf(m) \ TexturesOf(SphereMaterial') :
                     textures'[x].disposed >= 1]_vars

\* C2 (as claimed): while the controller is Active, a frame at elapsed = 0
\* displays the previous grid, and a frame at elapsed >= duration displays
\* the next grid alone and leaves the controller Idle.
C2_TransitionEndpoints ==
    [][(FrameStep /\ Active3D) =>
          LET elapsed == now' - transitionRef.startTime
              m       == SphereMaterial
              next    == IF m.kind = "transition" THEN m.newDataMap ELSE m.dataMap
          IN  /\ (elapsed = 0 /\ m.kind = "transition") =>
                     scenes'[sceneRef].frame = textures[m.oldDataMap].data
              /\ elapsed >= transitionRef.duration =>
                     /\ ~transitionRef'.isTransitioning
                     /\ scenes'[sceneRef].frame = textures[next].data
                     /\ SphereMaterial'.kind = "plain"]_vars

\* C3 (as claimed): whatever data and scale changes came before, a frame
\* rendered a full duration or more after the last of them leaves the
\* controller Idle and displays the grid of the most recent change.
C3_LaterCallSupersedes ==
    [][(FrameStep /\ now' - now >= Duration3D) =>
          /\ ~transitionRef'.isTransitioning
          /\ scenes'[sceneRef].frame = CurrentGrid]_vars

\* C4 (as claimed): a frame at elapsed >= duration of an Active transition
\* disposes the previous texture and the transition material exactly once
\* each, does not dispose the next texture, and leaves the sphere with a
\* material that is not disposed and samples no disposed texture; and the
\* previous texture is not disposed while the transition sampling it is
\* Active.
C4_CompletionDisposal ==
    [][/\ (FrameStep /\ Active3D /\ now' - transitionRef.startTime >= transitionRef.duration) =>
              LET tm == TransitionMaterialId
                  m  == materials[tm]
              IN  /\ materials'[tm].disposed = 1
                  /\ textures'[m.oldDataMap].disposed = 1
                  /\ textures'[m.newDataMap].disposed = 0
                  /\ SphereMaterial'.disposed = 0
                  /\ \A x \in TexturesOf(SphereMaterial') : textures'[x].disposed = 0
       /\ (sceneRef # 0 /\ Active3D /\ SphereMaterial.kind = "transition") =>
              textures[SphereMaterial.oldDataMap].disposed = 0]_vars

\* the eased progress of the 2-D transition at time t
Progress2D(t) ==
    EaseInOutCubic(MathMin(JsDiv(Num(t - transition2DRef.startTime),
                                 Num(transition2DRef.duration)), Num(1)))

\* this step is a frame of animate2DTransition
Frame2DStep == \E dt \in TickSteps : Tick2D(dt)

\* every number a grid and a scale setting of the scene can normalize to
SceneNormalized ==
    {v \in UNION {{CreateDataTexture(FitsOf(r), uf, ParseFloat(a), ParseFloat(b))[i] :
                      i \in 1..Len(Flatten(r))} :
                  r \in SceneRows, uf \in BOOLEAN, a \in SceneInputs, b \in SceneInputs} :
        IsNum(v)}

\* the 2-D transition runs between the images of two grids of numbers
Numeric2D ==
    /\ \A i \in DOMAIN CurrentGrid : IsNum(CurrentGrid[i])
    /\ \A i \in DOMAIN transition2DRef.oldImageData :
           \E prev \in SceneNormalized :
               Pixel(GetColorForValue(prev)) = transition2DRef.oldImageData[i]

-----------------------------------------------------------------------------
(* parseFITS                                                               *)

fDone == fPhase = "done"

\* the grid the header cards ask for
fRows ==
    LET w == ParseInt(fGen.naxis1).n
        h == ParseInt(fGen.naxis2).n
    IN  [y \in 1..h |-> [x \in 1..w |-> fGen.samples[(y - 1) * w + x]]]

fCoerced == [y \in DOMAIN fRows |-> [x \in DOMAIN fRows[y] |-> Finite(fRows[y][x])]]

\* where the header scan leaves the file
fScan == ScanHeader(fFile, ScanStart)

\* C11: decode returns a failure value and no grid whenever NAXIS1 or NAXIS2
\* is absent, zero, negative or unparsable
C11_MissingDimensionFails ==
    (fDone /\ ~(Positive(fGen.naxis1) /\ Positive(fGen.naxis2))) => ~fResult.ok

\* C12: decode returns a failure value and no grid whenever BITPIX is not one
\* of 8, 16, 32, -32, -64
C12_UnsupportedEncodingFails ==
    (fDone /\ fGen.bitpix \notin SupportedBitpix) => ~fResult.ok

\* C13: decode returns a failure value and no grid whenever the buffer ends
\* before width * height samples of abs(BITPIX) / 8 bytes each, counted from
\* the payload offset
C13_TruncatedPayloadFails ==
    (/\ fDone
     /\ ~fScan.threw
     /\ ~Falsy(fScan.width) /\ ~Falsy(fScan.height)
     /\ fScan.width.n > 0 /\ fScan.height.n > 0
     /\ 8 * (ByteLength(fFile) - fScan.offset)
            < fScan.width.n * fScan.height.n * Abs(fScan.bitpix.n))
    => ~fResult.ok

\* C14: every grid a successful decode returns has height rows of width
\* samples, width * height samples in all, and observedMin <= observedMax
C14_ScalarGridInvariant ==
    (fDone /\ fResult.ok) =>
        /\ Len(fResult.data) = fResult.height
        /\ \A y \in DOMAIN fResult.data : Len(fResult.data[y]) = fResult.width
        /\ Len(Flatten(fResult.data)) = fResult.width * fResult.height
        /\ JsLe(fResult.min, fResult.max)

\* a well-formed file: positive NAXIS1 and NAXIS2, a supported BITPIX, an END
\* card, and every sample present after the block that holds END
WellFormed ==
    /\ Positive(fGen.naxis1) /\ Positive(fGen.naxis2)
    /\ fGen.bitpix \in SupportedBitpix
    /\ fGen.endKind \in {"end", "decoy"}
    /\ fGen.tail.cut = 0

\* C15 as stated: a well-formed file decodes to width w, height h, the
\* encoded samples in row-major order, observedMin the least and observedMax
\* the greatest sample; cards after END are ignored
C15_RoundTripAnySample ==
    (fDone /\ WellFormed) =>
        /\ fResult.ok
        /\ fResult.width = ParseInt(fGen.naxis1).n
        /\ fResult.height = ParseInt(fGen.naxis2).n
        /\ fResult.data = fRows
        /\ \A y \in DOMAIN fRows : \A x \in DOMAIN fRows[y] :
              JsLe(fResult.min, fRows[y][x]) /\ JsLe(fRows[y][x], fResult.max)
        /\ \E y \in DOMAIN fRows : \E x \in DOMAIN fRows[y] : fResult.min = fRows[y][x]
        /\ \E y \in DOMAIN fRows : \E x \in DOMAIN fRows[y] : fResult.max = fRows[y][x]

\* C15: a well-formed file decodes to width w, height h, the encoded samples
\* in row-major order with every non-finite sample replaced by 0,
\* observedMin the least and observedMax the greatest of these values; cards
\* after END are ignored
C15_RoundTrip ==
    (fDone /\ WellFormed) =>
        /\ fResult.ok
        /\ fResult.width = ParseInt(fGen.naxis1).n
        /\ fResult.height = ParseInt(fGen.naxis2).n
        /\ fResult.data = fCoerced
        /\ \A y \in DOMAIN fCoerced : \A x \in DOMAIN fCoerced[y] :
              JsLe(fResult.min, fCoerced[y][x]) /\ JsLe(fCoerced[y][x], fResult.max)
        /\ \E y \in DOMAIN fCoerced : \E x \in DOMAIN fCoerced[y] :
              fResult.min = fCoerced[y][x]
        /\ \E y \in DOMAIN fCoerced : \E x \in DOMAIN fCoerced[y] :
              fResult.max = fCoerced[y][x]

\* a 2 x 2 grid of 32-bit floats, one of them NaN and one a fraction, in a
\* two-block header with cards after END, has been decoded
C15_Witness ==
    /\ fDone /\ WellFormed /\ fResult.ok
    /\ fGen.naxis1 = "2" /\ fGen.naxis2 = "2" /\ fGen.bitpix = "-32"
    /\ fGen.endKind = "decoy" /\ fGen.split
    /\ \E i \in DOMAIN fGen.samples : IsNaN(fGen.samples[i])
    /\ \E i \in DOMAIN fGen.samples : fGen.samples[i] = Rat(1, 2)
    /\ \E i \in DOMAIN fGen.samples : fGen.samples[i] = Num(-100)

\* C16: every non-finite decoded sample is stored as 0 before the running
\* min / max update, so observedMin and observedMax are always finite
C16_CoercedBeforeMinMax ==
    (fDone /\ fResult.ok) =>
        /\ \A y \in DOMAIN fResult.data : \A x \in DOMAIN fResult.data[y] :
              IsNum(fResult.data[y][x])
        /\ IsNum(fResult.min) /\ IsNum(fResult.max)

-----------------------------------------------------------------------------
(* Coronal field lines                                                     *)

HasTwoPoints(fieldLine) == Len(fieldLine.points) >= 2

ShapeMatches(fieldLine) == Len(fieldLine.strengths) = Len(fieldLine.points)

\* the field lines the lines of the group were built from, in order
RenderedFieldLines == [i \in DOMAIN fieldLineGroup |-> fieldLineGroup[i].fieldLineData]

\* C17: a field line whose strengths length differs from its points length is
\* reported as an error when the dataset is prepared: no such line is in an
\* accepted dataset, and none is rendered
C17_ShapeMismatchReported ==
    /\ \A i \in DOMAIN coronalData.fieldLines : ShapeMatches(coronalData.fieldLines[i])
    /\ \A i \in DOMAIN fieldLineGroup : ShapeMatches(fieldLineGroup[i].fieldLineData)

-----------------------------------------------------------------------------
(* The colour ramp on its two paths                                        *)

cDone == cPhase = "done"

\* a channel of the shader's vec3 as the 8-bit value of the frame: times 255,
\* to the nearest integer
ShaderChannel8(c) == ToUint8Clamped(JsMul(Num(255), c))

\* C19: the shader's getColorForValue and getColorForValue of the 2-D path
\* produce the same (r, g, b) for every normalized t in [0, 1]
C19_ColorPathsAgree ==
    cDone =>
        \A ch \in 1..3 :
            ShaderChannel8(ShaderGetColorForValue(cIn)[ch]) = Pixel(cOut)[ch]

\* the five bands: [from, to) and the colours at their two ends
Bands ==
    <<[from |-> Num(0),       to |-> Rat(2, 5),   a |-> <<100, 0, 0>>,     b |-> <<255, 200, 0>>],
      [from |-> Rat(2, 5),    to |-> Rat(12, 25), a |-> <<255, 200, 0>>,   b |-> <<200, 150, 150>>],
      [from |-> Rat(12, 25),  to |-> Rat(13, 25), a |-> <<150, 150, 150>>, b |-> <<150, 150, 150>>],
      [from |-> Rat(13, 25),  to |-> Rat(3, 5),   a |-> <<150, 150, 150>>, b |-> <<0, 255, 100>>],
      [from |-> Rat(3, 5),    to |-> Num(1),      a |-> <<0, 255, 100>>,   b |-> <<0, 0, 255>>]>>

\* the band of t: the first whose upper boundary t is below, else the last
BandOf(t) ==
    IF \E i \in 1..4 : JsLt(t, Bands[i].to)
    THEN Bands[CHOOSE i \in 1..4 : JsLt(t, Bands[i].to) /\ \A j \in 1..(i - 1) : ~JsLt(t, Bands[j].to)]
    ELSE Bands[5]

\* the channel on the straight line between the two ends of the band
RampChannel(t, ch) ==
    LET band == BandOf(t)
        u    == JsDiv(JsSub(t, band.from), JsSub(band.to, band.from))
    IN  JsAdd(Num(band.a[ch]), JsMul(u, Num(band.b[ch] - band.a[ch])))

\* C20: for every normalized t in [0, 1] the three channels are integers
\* within [0, 255], each the floor of the five-band piecewise-linear ramp
\* with boundaries 0.40, 0.48, 0.52, 0.60
C20_IntegerChannelsInRange ==
    cDone =>
        \A ch \in 1..3 :
            /\ IsNum(cOut[ch]) /\ cOut[ch].d = 1
            /\ 0 <= cOut[ch].n /\ cOut[ch].n <= 255
            /\ cOut[ch] = MathFloor(RampChannel(cIn, ch))

\* t = 0.45, inside the second band, where no channel of the ramp is an
\* integer: (220.625, 168.75, 93.75) has come out as (220, 168, 93)
C20_Witness ==
    /\ cDone
    /\ cIn = Rat(9, 20)
    /\ cOut = <<Num(220), Num(168), Num(93)>>

-----------------------------------------------------------------------------
(* The transition record and the material of the sphere                    *)

\* C24: in every state of the 3-D scene, if transitionRef.isTransitioning is
\* true the sphere's material is the transition material, and no frame of the
\* render loop has failed before rendering
C24_TransitioningHasTransitionMaterial ==
    sceneRef # 0 =>
        /\ Active3D => SphereMaterial.kind = "transition"
        /\ ~scenes[sceneRef].threw

-----------------------------------------------------------------------------
(* Progress of the 3-D transition                                          *)

\* cubic ease-in-out: 4t^3 below one half, 1 - (-2t + 2)^3 / 2 from there on
CubicInOut(t) ==
    LET cube(x) == JsMul(x, JsMul(x, x))
    IN  IF JsLt(t, Rat(1, 2)) THEN JsMul(Num(4), cube(t))
        ELSE JsSub(Num(1), JsDiv(cube(JsSub(Num(2), JsMul(Num(2), t))), Num(2)))

Clamp01(x) == MathMax(Num(0), MathMin(x, Num(1)))

\* this step is a frame of the render loop of some scene
AnyFrameStep == \E k \in DOMAIN scenes : \E dt \in TickSteps : Tick(k, dt)

-----------------------------------------------------------------------------
\* C26: once a 3-D scene has been torn down (its renderer disposed on the
\* switch to the 2-D map), no animation-frame callback of that scene is
\* still scheduled; every scene that is no longer the current one, or whose
\* viewer was unmounted, has had its renderer disposed; and at most one
\* render loop is running at any time.
RunningLoops == {k \in DOMAIN scenes : scenes[k].loop}

C26_TeardownStopsRenderLoop ==
    /\ \A k \in DOMAIN scenes :
          /\ scenes[k].rendererDisposed => ~scenes[k].loop
          /\ ((k # sceneRef \/ ~mounted) /\ ~scenes[k].threw) =>
                 scenes[k].rendererDisposed
    /\ Cardinality(RunningLoops) <= 1

-----------------------------------------------------------------------------
(* The server: GET /api/fits/carrington/:rotationNumber, as routes/fits.ts *)
(* and as index.ts define it.                                              *)

DigitChars == <<"0", "1", "2", "3", "4", "5", "6", "7", "8", "9">>

IsDigit(c) == \E d \in DOMAIN DigitChars : DigitChars[d] = c

DigitValue(c) == (CHOOSE d \in DOMAIN DigitChars : DigitChars[d] = c) - 1

\* the longest run of digits at the head of chars, read in base 10
RECURSIVE DigitRun(_, _)
DigitRun(chars, acc) ==
    IF chars # <<>> /\ IsDigit(Head(chars))
    THEN DigitRun(Tail(chars), [n |-> 10 * acc.n + DigitValue(Head(chars)), any |-> TRUE])
    ELSE acc

RECURSIVE SkipSpaces(_)
SkipSpaces(chars) ==
    IF chars # <<>> /\ Head(chars) = " " THEN SkipSpaces(Tail(chars)) ELSE chars

\* parseInt(text): white space, a sign, then digits up to the first
\* character that is not one; NaN when there is no digit
ParseIntText(chars) ==
    LET s    == SkipSpaces(chars)
        neg  == s # <<>> /\ Head(s) = "-"
        body == IF s # <<>> /\ Head(s) \in {"-", "+"} THEN Tail(s) ELSE s
        run  == DigitRun(body, [n |-> 0, any |-> FALSE])
    IN  IF ~run.any THEN NaN
        ELSE IF neg THEN Num(0 - run.n) ELSE Num(run.n)

\* response.ok of node-fetch: status 200..299
Ok(status) == status >= 200 /\ status <= 299

\* fetch rejects when no HTTP answer arrives
Rejects == 0

NewRes == [sent |-> 0, status |-> 200, type |-> "", body |-> "", ended |-> FALSE]

\* res.status(code).json({ error })
Json(res, code, error) ==
    [res EXCEPT !.sent = @ + 1, !.status = code, !.type = "application/json",
                !.body = error, !.ended = TRUE]

\* res.setHeader('Content-Type', 'application/fits'); hfResponse.body.pipe(res):
\* the head goes out with the default status and the body follows
StartPipe(res) ==
    [res EXCEPT !.sent = @ + 1, !.type = "application/fits", !.body = "piping"]

\* routes/fits.ts: one GET, its ok decides
RouterCarrington(req, upstream) ==
    LET rotationNumber == ParseIntText(req.rotationNumber)
    IN  IF IsNaN(rotationNumber) THEN Json(NewRes, 400, "Invalid rotation number")
        ELSE IF upstream.get = Rejects THEN Json(NewRes, 500, "Internal server error")
        ELSE IF ~Ok(upstream.get) THEN Json(NewRes, 404, "No FITS file found for rotation")
        ELSE StartPipe(NewRes)

\* index.ts: a HEAD whose ok decides, then a GET that is piped as it comes
AppCarrington(req, upstream) ==
    LET rotationNumber == ParseIntText(req.rotationNumber)
    IN  IF IsNaN(rotationNumber) THEN Json(NewRes, 400, "Invalid rotation number")
        ELSE IF upstream.head = Rejects THEN Json(NewRes, 500, "Internal server error")
        ELSE IF ~Ok(upstream.head) THEN Json(NewRes, 404, "No FITS file found for rotation")
        ELSE IF upstream.get = Rejects THEN Json(NewRes, 500, "Internal server error")
        ELSE StartPipe(NewRes)

\* what the upstream body holds: the file, or the page of its error status
UpstreamBody(upstream) == IF Ok(upstream.get) THEN "fits bytes" ELSE "error page"

\* the pipe runs dry: res.end() after the last chunk; a source that errors
\* midway is unpiped and the response is left open
EndPipe(res, upstream) ==
    IF upstream.stream = "complete"
    THEN [res EXCEPT !.body = UpstreamBody(upstream), !.ended = TRUE]
    ELSE [res EXCEPT !.body = "partial"]

-----------------------------------------------------------------------------
(* SpecServer: one request against every behaviour of the upstream host.   *)

RotationTexts ==
    {<<"2", "1", "0", "0">>, <<"9", "9">>, <<"a", "b">>, <<"2", "1", "x">>,
     <<"-", "5">>, <<" ", "7">>}

UpstreamStatuses == {Rejects, 200, 404, 503}

InitServer ==
    /\ sReq \in [route : {"router", "app"}, rotationNumber : RotationTexts]
    /\ sUpstream \in [head : UpstreamStatuses, get : UpstreamStatuses,
                      stream : {"complete", "broken"}]
    /\ sRes = NewRes
    /\ sPhase = "request"
    /\ GlobeOff /\ NavOff
    /\ NormOff /\ ColorOff /\ FitsOff /\ CoronalOff
    /\ ViewerOff

Handled(res) ==
    /\ sRes' = res
    /\ sPhase' = IF res.ended THEN "done" ELSE "piping"
    /\ UNCHANGED <<sReq, sUpstream, gvars, kvars, nvars, cvars, fvars, lvars,
                   pvars, svars, dvars, now, events>>

GetRouterCarrington ==
    /\ sPhase = "request" /\ sReq.route = "router"
    /\ Handled(RouterCarrington(sReq, sUpstream))

GetAppCarrington ==
    /\ sPhase = "request" /\ sReq.route = "app"
    /\ Handled(AppCarrington(sReq, sUpstream))

PipeEnds ==
    /\ sPhase = "piping"
    /\ sRes' = EndPipe(sRes, sUpstream)
    /\ sPhase' = "done"
    /\ UNCHANGED <<sReq, sUpstream, gvars, kvars, nvars, cvars, fvars, lvars,
                   pvars, svars, dvars, now, events>>

NextServer ==
    \/ GetRouterCarrington
    \/ GetAppCarrington
    \/ PipeEnds

SpecServer == InitServer /\ [][NextServer]_vars

\* C21: a request that has been handled got exactly one, finished response:
\* 400 when the rotation number does not parse, 404 when (and only when) the
\* upstream host says the file does not exist, 500 when the upstream host
\* could not be reached, and otherwise 200 with the bytes of the FITS file.
sDone == sPhase = "done"

sInvalid == IsNaN(ParseIntText(sReq.rotationNumber))

\* the upstream answers the handler acts on, in order
sAsked == IF sReq.route = "app" THEN <<sUpstream.head, sUpstream.get>>
          ELSE <<sUpstream.get>>

sNotFound == \A i \in DOMAIN sAsked : sAsked[i] = 404

sReached == \A i \in DOMAIN sAsked : sAsked[i] # Rejects

C21_OneResponsePerOutcome ==
    sDone =>
        /\ sRes.sent = 1 /\ sRes.ended
        /\ sInvalid => sRes.status = 400
        /\ sRes.status = 400 => sInvalid
        /\ (~sInvalid /\ sNotFound) => sRes.status = 404
        /\ sRes.status = 404 => (~sInvalid /\ \E i \in DOMAIN sAsked : sAsked[i] = 404)
        /\ (~sInvalid /\ ~sReached) => sRes.status = 500
        /\ sRes.status = 200 =>
              /\ sRes.type = "application/fits"
              /\ sRes.body = "fits bytes"

-----------------------------------------------------------------------------
(* SolarMagneticFieldGlobe: useFitsData, useCarringtonData and             *)
(* useCoronalFieldLines, and the requests they leave in flight.            *)

MinCR == 2096
MaxCR == 2285

RangeMessage == "Carrington rotation number must be between 2096 and 2285"

\* the state of the three hooks
NavWorld ==
    [fitsData |-> fitsData, currentCRNumber |-> currentCRNumber,
     fetchError |-> fetchError, isNavigating |-> isNavigating,
     isFetching |-> isFetching, isProcessing |-> isProcessing,
     dataSource |-> dataSource, coronalData |-> coronalData,
     coronalError |-> coronalError, isLoadingCoronal |-> isLoadingCoronal,
     requests |-> requests, issued |-> issued]

\* what the server holds for a rotation: rotations differ in their files
FitsFile(cr) == FitsOf(<<<<cr % 7, 0 - (cr % 5)>>>>)

CoronalFile(cr) == <<FieldLine(2 + (cr % 3), 2 + (cr % 3), "open")>>

\* a rotation number that fetchCarringtonData accepts (the upper test only)
AboveRange(rotationNum) == rotationNum > MaxCR

\* rotationNum < 2096 || rotationNum > 2285
OutOfRange(rotationNum) == rotationNum < MinCR \/ rotationNum > MaxCR

\* `CR${rotationNum}.fits`
FileName(rotationNum) == <<"CR", rotationNum, ".fits">>

\* fetchCarringtonData up to its first await
FetchCarringtonData(w, rotationNum, isNavigation) ==
    IF OutOfRange(rotationNum) THEN [w EXCEPT !.fetchError = RangeMessage]
    ELSE [w EXCEPT
            !.fetchError = "",
            !.isNavigating = IF isNavigation THEN TRUE ELSE @,
            !.isFetching = IF isNavigation THEN @ ELSE TRUE,
            !.fitsData = IF isNavigation THEN @ ELSE NoFits,
            !.dataSource = FileName(rotationNum),
            !.issued = @ + 1,
            !.requests = @ \cup {[id |-> w.issued + 1, kind |-> "fits",
                                  cr |-> rotationNum, nav |-> isNavigation,
                                  stage |-> "fetching"]}]

\* api.fetchCarringtonFits resolved: the blob is handed to parseFITS
FitsFetched(w, req) ==
    LET w1 == [w EXCEPT !.requests = (@ \ {req}) \cup {[req EXCEPT !.stage = "parsing"]}]
    IN  IF req.nav THEN w1
        ELSE [w1 EXCEPT !.isFetching = FALSE, !.isProcessing = TRUE]

\* api.fetchCarringtonFits rejected: the catch block
FitsFailed(w, req, message) ==
    [w EXCEPT !.requests = @ \ {req},
              !.isFetching = FALSE, !.isNavigating = FALSE, !.fetchError = message]

\* parseFITS resolved, with the grid or with null
FitsParsed(w, req, parsed) ==
    LET w1 == [w EXCEPT !.requests = @ \ {req},
                        !.fitsData = parsed,
                        !.currentCRNumber = req.cr]
    IN  IF req.nav THEN [w1 EXCEPT !.isNavigating = FALSE]
        ELSE [w1 EXCEPT !.isProcessing = FALSE]

\* fetchCoronalData up to its await
BeginFetchCoronal(w, crNumber) ==
    [w EXCEPT !.isLoadingCoronal = TRUE, !.coronalError = "",
              !.issued = @ + 1,
              !.requests = @ \cup {[id |-> w.issued + 1, kind |-> "coronal",
                                    cr |-> crNumber, nav |-> FALSE,
                                    stage |-> "fetching"]}]

\* ... and from its await on: try, catch and finally
EndFetchCoronal(w, req, ok) ==
    [w EXCEPT !.requests = @ \ {req},
              !.coronalData = IF ok THEN [id |-> req.id, fieldLines |-> CoronalFile(req.cr)]
                              ELSE NoCoronalData,
              !.coronalError = IF ok THEN @ ELSE "Failed to load coronal data",
              !.isLoadingCoronal = FALSE]

ClearCoronalData(w) == [w EXCEPT !.coronalData = NoCoronalData, !.coronalError = ""]

\* reset of useFitsData
ResetFitsData(w) ==
    [w EXCEPT !.isFetching = FALSE, !.dataSource = <<>>, !.fitsData = NoFits,
              !.isProcessing = FALSE]

\* reset of useCarringtonData
ResetCarrington(w) ==
    [w EXCEPT !.currentCRNumber = 0, !.fetchError = "", !.isNavigating = FALSE]

-----------------------------------------------------------------------------
(* SpecNav: the user's fetches, navigations and resets in every order with *)
(* the arrival of the answers.                                             *)

MaxRequests == 4

\* what the rotation input can hold when Fetch is pressed
CarringtonTexts ==
    {<<>>, <<"2", "0", "9", "5">>, <<"2", "0", "9", "6">>,
     <<"2", "2", "8", "5">>, <<"2", "2", "8", "6">>}

InitNav ==
    /\ NavOff
    /\ GlobeOff /\ ServerOff
    /\ NormOff /\ ColorOff /\ FitsOff /\ CoronalOff
    /\ ViewerOff

CommitNav(w) ==
    /\ fitsData' = w.fitsData
    /\ currentCRNumber' = w.currentCRNumber
    /\ fetchError' = w.fetchError
    /\ isNavigating' = w.isNavigating
    /\ isFetching' = w.isFetching
    /\ isProcessing' = w.isProcessing
    /\ dataSource' = w.dataSource
    /\ coronalData' = w.coronalData
    /\ coronalError' = w.coronalError
    /\ isLoadingCoronal' = w.isLoadingCoronal
    /\ requests' = w.requests
    /\ issued' = w.issued
    /\ UNCHANGED <<lFetches, lScene, fieldLineGroup, oldFieldLineGroup,
                   currentCoronalDataRef, fieldLineTransitionRef,
                   mounted, crashed, show2DMap, useFixedScale, fixedMin, fixedMax,
                   svars, dvars, gvars, hvars, nvars, cvars, fvars, now, events>>

\* the Fetch button (or Enter) of the upload view, shown while fitsData is null
HandleCarringtonFetch(text) ==
    /\ fitsData = NoFits /\ ~isFetching /\ ~isProcessing
    /\ issued < MaxRequests
    /\ \E rotationNum \in {ParseIntText(text)} :
          /\ ~Falsy(rotationNum)
          /\ \E w0 \in {ClearCoronalData(NavWorld)} :
             \E w \in {FetchCarringtonData(w0, rotationNum.n, FALSE)} : CommitNav(w)
          /\ afterReset' = (afterReset /\ OutOfRange(rotationNum.n))

\* the Prev / Next buttons of the viewer, disabled while navigating and at
\* the ends of the range
HandleNavigate(direction) ==
    /\ fitsData # NoFits /\ ~isNavigating
    /\ currentCRNumber # 0
    /\ IF direction = "next" THEN currentCRNumber < MaxCR ELSE currentCRNumber > MinCR
    /\ issued + 2 <= MaxRequests
    /\ \E newCRNumber \in {IF direction = "next" THEN currentCRNumber + 1
                           ELSE currentCRNumber - 1} :
       \E w0 \in {IF coronalData # NoCoronalData
                  THEN BeginFetchCoronal(NavWorld, newCRNumber) ELSE NavWorld} :
       \E w \in {FetchCarringtonData(w0, newCRNumber, TRUE)} : CommitNav(w)
    /\ afterReset' = FALSE

\* the coronal button of the viewer when there is no coronal data yet
HandleFetchCoronalData ==
    /\ fitsData # NoFits
    /\ coronalData = NoCoronalData /\ ~isLoadingCoronal /\ currentCRNumber # 0
    /\ issued < MaxRequests
    /\ \E w \in {BeginFetchCoronal(NavWorld, currentCRNumber)} : CommitNav(w)
    /\ afterReset' = FALSE

\* the View Another button of the viewer
HandleReset ==
    /\ fitsData # NoFits
    /\ \E w0 \in {ResetFitsData(NavWorld)} :
       \E w1 \in {ResetCarrington(w0)} :
       \E w \in {ClearCoronalData(w1)} : CommitNav(w)
    /\ afterReset' = TRUE

\* the server answers a FITS request, or the request fails
FitsResponse(req, ok) ==
    /\ req \in requests /\ req.kind = "fits" /\ req.stage = "fetching"
    /\ \E w \in {IF ok THEN FitsFetched(NavWorld, req)
                 ELSE FitsFailed(NavWorld, req, "Network Error")} : CommitNav(w)
    /\ UNCHANGED afterReset

\* parseFITS is done with the blob: decoded, or null
ParseDone(req, decoded) ==
    /\ req \in requests /\ req.kind = "fits" /\ req.stage = "parsing"
    /\ \E parsed \in {IF decoded THEN [id |-> req.id, fits |-> FitsFile(req.cr)]
                      ELSE NoFits} :
       \E w \in {FitsParsed(NavWorld, req, parsed)} : CommitNav(w)
    /\ UNCHANGED afterReset

\* the server answers a coronal request, or the request fails
CoronalResponse(req, ok) ==
    /\ req \in requests /\ req.kind = "coronal"
    /\ \E w \in {EndFetchCoronal(NavWorld, req, ok)} : CommitNav(w)
    /\ UNCHANGED afterReset

NextNav ==
    \/ \E text \in CarringtonTexts : HandleCarringtonFetch(text)
    \/ \E direction \in {"next", "prev"} : HandleNavigate(direction)
    \/ HandleFetchCoronalData
    \/ HandleReset
    \/ \E req \in requests, ok \in BOOLEAN : FitsResponse(req, ok)
    \/ \E req \in requests, decoded \in BOOLEAN : ParseDone(req, decoded)
    \/ \E req \in requests, ok \in BOOLEAN : CoronalResponse(req, ok)

SpecNav == InitNav /\ [][NextNav]_vars

\* C23: a call of fetchCarringtonData with a rotation number below 2096 or
\* above 2285 sets fetchError to the range message and nothing else: no
\* request is issued, and fitsData, dataSource, currentCRNumber, isFetching,
\* isProcessing and isNavigating keep their values.
Outside(rotationNum) == rotationNum < MinCR \/ rotationNum > MaxCR

OnlyTheRangeError ==
    /\ fetchError' = RangeMessage
    /\ UNCHANGED <<fitsData, dataSource, currentCRNumber, isFetching, isProcessing,
                   isNavigating, requests, issued>>

C23_OutOfRangeOnlySetsError ==
    [][/\ \A text \in CarringtonTexts :
             (HandleCarringtonFetch(text) /\ Outside(ParseIntText(text).n))
                 => OnlyTheRangeError
       /\ (HandleNavigate("next") /\ Outside(currentCRNumber + 1)) => OnlyTheRangeError
       /\ (HandleNavigate("prev") /\ Outside(currentCRNumber - 1)) => OnlyTheRangeError]_vars

C23_Witness ==
    /\ fetchError = RangeMessage
    /\ requests # {}
    /\ afterReset

\* C25: whenever no FITS or coronal request is in flight and coronalData is
\* not null, coronalData is the dataset of the rotation in currentCRNumber.
C25_CoronalMatchesRotation ==
    (requests = {} /\ coronalData # NoCoronalData) =>
        /\ currentCRNumber # 0
        /\ coronalData.fieldLines = CoronalFile(currentCRNumber)

\* C27: from handleReset until the user starts a new fetch, fitsData is null
\* and currentCRNumber is undefined, whatever answers arrive in between.
C27_ResetStaysReset ==
    afterReset => (fitsData = NoFits /\ currentCRNumber = 0)

\* C28: when parseFITS resolves to null for a navigation fetch, the grid on
\* display and currentCRNumber stay as they were, fetchError is set, and
\* isNavigating is false afterwards.
C28_FailedDecodeKeepsGrid ==
    [][\A req \in requests :
          (req.nav /\ ParseDone(req, FALSE)) =>
              /\ fitsData' = fitsData
              /\ currentCRNumber' = currentCRNumber
              /\ fetchError' # ""
              /\ ~isNavigating']_vars

-----------------------------------------------------------------------------
(* SpecGlobe: the field lines across the scenes of one viewer: datasets    *)
(* arrive, frames run, and the 2D Map button destroys and re-creates the   *)
(* scene.                                                                  *)

InitGlobe ==
    /\ lFetches = 0
    /\ lScene = TRUE
    /\ coronalData = NoCoronalData
    /\ coronalError = ""
    /\ fieldLineGroup = <<>>
    /\ oldFieldLineGroup = <<>>
    /\ currentCoronalDataRef = 0
    /\ fieldLineTransitionRef = NoTransition
    /\ GlobeOff /\ ServerOff /\ NavOff
    /\ NormOff /\ ColorOff /\ FitsOff
    /\ ViewerOff

\* the coronal effect moves the lines on display to the old group
Moves(w, sceneExists, data) ==
    sceneExists /\ data.id # 0 /\ Len(w.fieldLineGroup) > 0
        /\ w.currentCoronalDataRef # data.id

\* setCoronalData with the answer of the server, and the effect on
\* [coronalData] of that commit; the old group is cleared, each line
\* disposed, before lines are moved into it
DatasetArrives(response) ==
    /\ lFetches < MaxFetches
    /\ lFetches' = lFetches + 1
    /\ IF response.ok
       THEN /\ coronalData' = [id |-> lFetches + 1, fieldLines |-> response.fieldLines]
            /\ coronalError' = ""
       ELSE /\ coronalData' = NoCoronalData
            /\ coronalError' = "not found"
    /\ \E w \in {CoronalEffect(CoronalWorld, lScene, coronalData', now)} :
          CommitCoronal(w)
    /\ IF Moves(CoronalWorld, lScene, coronalData')
       THEN /\ lMoved' = lMoved + Len(fieldLineGroup)
            /\ lDisposed' = lDisposed + Len(oldFieldLineGroup)
       ELSE UNCHANGED <<lMoved, lDisposed>>
    /\ UNCHANGED <<lScene, hvars, kvars, nvars, cvars, fvars, pvars, svars, dvars,
                   now, events>>

\* a frame of the globe after dt milliseconds; at rawProgress 1 the lines
\* of the old group are disposed and removed
GlobeFrame(dt) ==
    /\ lScene
    /\ now + dt <= MaxTime
    /\ now' = now + dt
    /\ \E w \in {AnimateFieldLines(CoronalWorld, lScene, now')} :
          /\ CommitCoronal(w)
          /\ lDisposed' = lDisposed + (Len(oldFieldLineGroup) - Len(w.oldFieldLineGroup))
    /\ UNCHANGED <<lFetches, lScene, coronalData, coronalError, lMoved,
                   hvars, kvars, nvars, cvars, fvars, pvars, svars, dvars, events>>

\* the 2D Map button while the globe is shown: the Initialize effect
\* disposes the renderer and sets sceneRef.current to null; the groups go
\* with the scene, their lines as they are
ShowMap ==
    /\ lScene
    /\ lScene' = FALSE
    /\ fieldLineGroup' = <<>>
    /\ oldFieldLineGroup' = <<>>
    /\ UNCHANGED <<lFetches, coronalData, coronalError, currentCoronalDataRef,
                   fieldLineTransitionRef, xvars, nvars, cvars, fvars, pvars, svars,
                   dvars, now, events>>

\* the 3D Globe button: initThreeJS builds a scene with two empty groups;
\* the effect on [coronalData] does not run, coronalData has not changed
ShowGlobe ==
    /\ ~lScene
    /\ lScene' = TRUE
    /\ fieldLineGroup' = <<>>
    /\ oldFieldLineGroup' = <<>>
    /\ UNCHANGED <<lFetches, coronalData, coronalError, currentCoronalDataRef,
                   fieldLineTransitionRef, xvars, nvars, cvars, fvars, pvars, svars,
                   dvars, now, events>>

NextGlobe ==
    \/ \E response \in CoronalResponses : DatasetArrives(response)
    \/ \E dt \in TickSteps : GlobeFrame(dt)
    \/ ShowMap
    \/ ShowGlobe

SpecGlobe == InitGlobe /\ [][NextGlobe]_vars

\* C29: whenever a 3-D scene exists and coronalData is not null, the scene's
\* fieldLineGroup holds one line for each field line of coronalData that has
\* at least 2 points, and no other line: also in a scene built after the
\* 2-D map was shown, and for data that arrived while it was shown.
LongFieldLines == SelectSeq(coronalData.fieldLines, HasTwoPoints)

C29_SceneShowsCoronalData ==
    (lScene /\ coronalData # NoCoronalData) =>
        /\ Len(fieldLineGroup) = Len(LongFieldLines)
        /\ \A i \in DOMAIN fieldLineGroup :
              fieldLineGroup[i].fieldLineData = LongFieldLines[i]

\* C30: oldFieldLineGroup holds lines only while a field-line transition is
\* active; once a started transition has completed the old group is empty,
\* every line that was moved into it has been disposed, once, and every
\* line of fieldLineGroup has opacity 0.6.
FieldLineFadeDone == fieldLineTransitionRef.set /\ ~fieldLineTransitionRef.isTransitioning

C30_FieldLineCrossfade ==
    /\ oldFieldLineGroup # <<>> => fieldLineTransitionRef.isTransitioning
    /\ lDisposed <= lMoved
    /\ FieldLineFadeDone =>
          /\ oldFieldLineGroup = <<>>
          /\ lDisposed = lMoved
          /\ \A i \in DOMAIN fieldLineGroup : fieldLineGroup[i].opacity = Rat(6, 10)

=============================================================================
